---- MODULE Spec2Model ----
(***************************************************************************)
(* Model of the selection-and-bulk-operation engine of the file explorer   *)
(* (src/src/class/FileExplorer.ts, class FileExplorer, lines 180-373).     *)
(*                                                                         *)
(* A path is the sequence of its components ("/r/a" is <<"r", "a">>, "/"   *)
(* is <<>>).  The selection, a JavaScript Set, is the sequence of its      *)
(* members in insertion order.  The filesystem is a function from the      *)
(* paths that exist to their node.  Every bulk operation is a sequence of  *)
(* steps, one per call of the filesystem port (the points where the async  *)
(* code suspends), each step carrying the synchronous code that follows    *)
(* the call up to the next one.  Spec is the engine under any calls of its  *)
(* caller; ResolveSpec and TreeSpec run one operation from a set of        *)
(* starting directories and selections; StoreSpec is the selection store   *)
(* and the listing, GeneratorSpec the name generator, and ApiSpec the      *)
(* request handlers of src/src/api/server.ts over the engine.              *)
(***************************************************************************)
EXTENDS Integers, Sequences, FiniteSets, TLC

VARIABLES
    selection,  \* FileExplorer.selection, in insertion order
    fs,         \* the filesystem behind the port: path -> node
    pc,         \* position of the running bulk operation ("idle": none)
    op,         \* locals of the running bulk operation
    calls,      \* port calls of the running operation, from mkdir(destination) on
    faults,     \* number of injected port failures so far
    callCount,  \* number of calls the caller has made on the explorer
    generator,  \* the RandomDirectoryNameGenerator and its last generate()
    response    \* the HTTP response to the last request

vars == <<selection, fs, pc, op, calls, faults, callCount, generator, response>>

----------------------------------------------------------------------------
(* Bounds of the model.                                                    *)

MaxCalls == 3       \* calls made on the explorer in one behaviour
MaxFaults == 1      \* port calls that fail for a reason outside the model
MaxPaths == 2       \* length of the path list of one select / deselect call

(* tryRandomDestination: const maxAttempts = 10                            *)
maxAttempts == 10

----------------------------------------------------------------------------
(* Paths: path.join, path.basename, path.dirname, path.resolve.            *)

join(dir, name) == IF name = "" THEN dir ELSE Append(dir, name)

basename(p) == IF p = <<>> THEN "" ELSE p[Len(p)]

dirname(p) == IF Len(p) <= 1 THEN <<>> ELSE SubSeq(p, 1, Len(p) - 1)

(* path.resolve of an absolute path: "." and ".." components are folded.   *)
RECURSIVE resolve(_)
resolve(p) ==
    IF p = <<>> THEN <<>>
    ELSE LET init == resolve(SubSeq(p, 1, Len(p) - 1))
             last == p[Len(p)]
         IN  IF last = "." THEN init
             ELSE IF last = ".." THEN dirname(init)
             ELSE Append(init, last)

IsPrefix(a, b) == Len(a) <= Len(b) /\ SubSeq(b, 1, Len(a)) = a

Prefixes(p) == { SubSeq(p, 1, k) : k \in 0..Len(p) }

Range(s) == { s[i] : i \in 1..Len(s) }

----------------------------------------------------------------------------
(* The filesystem port (interface FileSystemPort, class NodeFileSystem).   *)
(* For each call, xxxError gives the error code the call fails with on     *)
(* filesystem f ("" when it succeeds) and xxxApply the filesystem after a  *)
(* successful call.                                                        *)

FileNode(c) == [type |-> "file", content |-> c]
DirNode == [type |-> "directory", content |-> 0]

exists(f, p) == p \in DOMAIN f

Children(f, p) == { q \in DOMAIN f : Len(q) = Len(p) + 1 /\ IsPrefix(p, q) }

statError(f, p) == IF p \notin DOMAIN f THEN "ENOENT" ELSE ""

readDirError(f, p) ==
    IF p \notin DOMAIN f THEN "ENOENT"
    ELSE IF f[p].type # "directory" THEN "ENOTDIR"
    ELSE ""

(* The listings readDir may return: the children in any order.             *)
readDirResults(f, p) ==
    LET kids == Children(f, p)
        n == Cardinality(kids)
    IN  { [i \in 1..n |-> [name |-> basename(s[i]), type |-> f[s[i]].type]] :
            s \in { t \in [1..n -> kids] : \A k \in kids : \E i \in 1..n : t[i] = k } }

copyFileError(f, s, d) ==
    IF s \notin DOMAIN f THEN "ENOENT"
    ELSE IF f[s].type = "directory" THEN "EISDIR"
    ELSE IF dirname(d) \notin DOMAIN f THEN "ENOENT"
    ELSE IF f[dirname(d)].type # "directory" THEN "ENOTDIR"
    ELSE IF d \in DOMAIN f /\ f[d].type = "directory" THEN "EISDIR"
    ELSE ""

copyFileApply(f, s, d) ==
    [q \in DOMAIN f \cup {d} |-> IF q = d THEN FileNode(f[s].content) ELSE f[q]]

(* mkdir with { recursive: true }                                          *)
mkdirError(f, p) ==
    IF p \in DOMAIN f /\ f[p].type = "file" THEN "EEXIST"
    ELSE IF \E q \in Prefixes(p) : q \in DOMAIN f /\ f[q].type = "file" THEN "ENOTDIR"
    ELSE ""

mkdirApply(f, p) ==
    [q \in DOMAIN f \cup Prefixes(p) |-> IF q \in DOMAIN f THEN f[q] ELSE DirNode]

(* rm with { recursive: true, force: true }: an absent path is no error.   *)
rmError(f, p) == ""

rmApply(f, p) == [q \in { r \in DOMAIN f : ~IsPrefix(p, r) } |-> f[q]]

renameError(f, s, d) ==
    IF s \notin DOMAIN f THEN "ENOENT"
    ELSE IF dirname(d) \notin DOMAIN f THEN "ENOENT"
    ELSE IF f[dirname(d)].type # "directory" THEN "ENOTDIR"
    ELSE IF s = d THEN ""
    ELSE IF IsPrefix(s, d) THEN "EINVAL"
    ELSE IF d \notin DOMAIN f THEN ""
    ELSE IF f[s].type = "file" /\ f[d].type = "directory" THEN "EISDIR"
    ELSE IF f[s].type = "directory" /\ f[d].type = "file" THEN "ENOTDIR"
    ELSE IF f[d].type = "directory" /\ Children(f, d) # {} THEN "ENOTEMPTY"
    ELSE ""

renameApply(f, s, d) ==
    IF s = d THEN f
    ELSE LET kept == { q \in DOMAIN f : ~IsPrefix(s, q) /\ ~IsPrefix(d, q) }
             moved == { d \o SubSeq(q, Len(s) + 1, Len(q)) :
                          q \in { r \in DOMAIN f : IsPrefix(s, r) } }
         IN  [q \in kept \cup moved |->
                 IF q \in moved THEN f[s \o SubSeq(q, Len(d) + 1, Len(q))] ELSE f[q]]

----------------------------------------------------------------------------
(* Injected port failures.  A call that the filesystem itself lets succeed *)
(* may still fail (permission, I/O, cross-device), at most MaxFaults times *)
(* in a behaviour.  Failures is the set of error codes a call may end      *)
(* with, "" being success.                                                 *)

Failures(natural, injected) ==
    IF natural # "" THEN {natural}
    ELSE IF faults < MaxFaults THEN {"", injected}
    ELSE {""}

FaultsAfter(natural, err) == IF natural = "" /\ err # "" THEN faults + 1 ELSE faults

OperationError(call, code) == [call |-> call, code |-> code]

NoError == OperationError("", "")

Logged(call, path, to, err, ret) ==
    Append(calls, [call |-> call, path |-> path, to |-> to, error |-> err, ret |-> ret])

----------------------------------------------------------------------------
(* RandomDirectoryNameGenerator, with the dictionaries given to the        *)
(* constructor and a random port whose next() yields k / RandomSteps.      *)

RandomSteps == 4

adjectives == <<"calm">>

nouns == <<"atlas", "delta">>

(* pickOne: dictionary[Math.floor(random.next() * dictionary.length)]      *)
pickOne(dictionary, k) == dictionary[((k * Len(dictionary)) \div RandomSteps) + 1]

(* generate: `${adjective}-${noun}`, the adjective drawn first             *)
generate(k1, k2) == pickOne(adjectives, k1) \o "-" \o pickOne(nouns, k2)

(* The names generate() can return, over the values of the random port.    *)
GeneratedNames == { generate(k1, k2) : k1, k2 \in 0..(RandomSteps - 1) }

(* The generator as an object: the dictionaries it was given, whether its  *)
(* constructor has run ("new": not yet) and how it ended, and the calls of *)
(* random.next() and the result of its last generate().                    *)
NewGenerator(adj, nns) ==
    [adjectives |-> adj, nouns |-> nns, status |-> "new", error |-> "",
     draws |-> <<>>, name |-> ""]

DictionariesEmpty == "Both dictionaries must contain at least one entry."

(* Variant: only the adjectives are validated.                             *)
constructor_nounsUnchecked(g) ==
    IF Len(g.adjectives) = 0
    THEN [g EXCEPT !.status = "failed", !.error = DictionariesEmpty]
    ELSE [g EXCEPT !.status = "ready"]

(* constructor: if (!adjectives.length || !nouns.length) throw             *)
constructor(g) ==
    IF Len(g.adjectives) = 0 \/ Len(g.nouns) = 0
    THEN [g EXCEPT !.status = "failed", !.error = DictionariesEmpty]
    ELSE [g EXCEPT !.status = "ready"]

(* The generator of the explorer: the dictionaries above, constructed.     *)
DefaultGenerator == constructor(NewGenerator(adjectives, nouns))

Draw(dictionary, k) == [dictionary |-> dictionary, value |-> k]

(* Variant: the noun is picked before the adjective.                       *)
generate_nounFirst(g, stream) ==
    LET noun == pickOne(g.nouns, stream[1])
        adjective == pickOne(g.adjectives, stream[2])
    IN  [g EXCEPT !.draws = <<Draw("nouns", stream[1]), Draw("adjectives", stream[2])>>,
                  !.name = adjective \o "-" \o noun]

(* generate on generator g, stream being the values random.next() yields   *)
(* from this call on: pickOne(this.adjectives), then pickOne(this.nouns).  *)
generate_on(g, stream) ==
    LET adjective == pickOne(g.adjectives, stream[1])
        noun == pickOne(g.nouns, stream[2])
    IN  [g EXCEPT !.draws = <<Draw("adjectives", stream[1]), Draw("nouns", stream[2])>>,
                  !.name = adjective \o "-" \o noun]

(* new RandomDirectoryNameGenerator(adjectives, nouns, random)             *)
newRandomDirectoryNameGenerator ==
    /\ generator.status = "new"
    /\ generator' = constructor(generator)
    /\ UNCHANGED <<selection, fs, pc, op, calls, faults, callCount, response>>

(* generator.generate(), the random port yielding k1 / RandomSteps and     *)
(* then k2 / RandomSteps                                                   *)
generate_call ==
    /\ generator.status = "ready"
    /\ callCount < MaxCalls
    /\ callCount' = callCount + 1
    /\ \E k1, k2 \in 0..(RandomSteps - 1) :
          generator' = generate_on(generator, <<k1, k2>>)
    /\ UNCHANGED <<selection, fs, pc, op, calls, faults, response>>

(* `${baseName}-${suffix}`                                                 *)
Digit == <<"1", "2", "3", "4", "5", "6", "7", "8", "9">>

numberedName(baseName, suffix) == baseName \o "-" \o Digit[suffix]

----------------------------------------------------------------------------
(* The selection store.                                                    *)

(* Variant: add appends whether or not the value is present.               *)
SetAdd_always(s, p) == Append(s, p)

(* Set.prototype.add / delete on the insertion-ordered set                 *)
SetAdd(s, p) == IF p \in Range(s) THEN s ELSE Append(s, p)

(* Variant: deleting a member empties the set.                             *)
SetDelete_clears(s, p) == IF p \in Range(s) THEN <<>> ELSE s

SetDelete(s, p) == SelectSeq(s, LAMBDA x : x # p)

RECURSIVE AddEach(_, _)
AddEach(s, paths) ==
    IF paths = <<>> THEN s
    ELSE AddEach(SetAdd(s, resolve(Head(paths))), Tail(paths))

RECURSIVE DeleteEach(_, _)
DeleteEach(s, paths) ==
    IF paths = <<>> THEN s
    ELSE DeleteEach(SetDelete(s, resolve(Head(paths))), Tail(paths))

selectEntries(paths) ==
    /\ callCount < MaxCalls
    /\ callCount' = callCount + 1
    /\ selection' = AddEach(selection, paths)
    /\ UNCHANGED <<fs, pc, op, calls, faults, generator, response>>

deselectEntries(paths) ==
    /\ callCount < MaxCalls
    /\ callCount' = callCount + 1
    /\ selection' = DeleteEach(selection, paths)
    /\ UNCHANGED <<fs, pc, op, calls, faults, generator, response>>

(* Variant: clear removes the oldest member only.                          *)
clearSelection_oldest ==
    /\ callCount < MaxCalls
    /\ callCount' = callCount + 1
    /\ selection' = IF selection = <<>> THEN <<>> ELSE Tail(selection)
    /\ UNCHANGED <<fs, pc, op, calls, faults, generator, response>>

clearSelection ==
    /\ callCount < MaxCalls
    /\ callCount' = callCount + 1
    /\ selection' = <<>>
    /\ UNCHANGED <<fs, pc, op, calls, faults, generator, response>>

(* getSelection: [...this.selection], the members in insertion order       *)
getSelection == selection

(* entries.map((entry) => entry.path)                                      *)
EntryPaths(entries) == [k \in 1..Len(entries) |-> entries[k].path]

(* Variant: the selection is not cleared first.                            *)
selectAll_keeps(entries) ==
    /\ callCount < MaxCalls
    /\ callCount' = callCount + 1
    /\ selection' = AddEach(selection, EntryPaths(entries))
    /\ UNCHANGED <<fs, pc, op, calls, faults, generator, response>>

(* selectAll: this.selection.clear(), then selectEntries of the paths      *)
selectAll(entries) ==
    /\ callCount < MaxCalls
    /\ callCount' = callCount + 1
    /\ selection' = AddEach(<<>>, EntryPaths(entries))
    /\ UNCHANGED <<fs, pc, op, calls, faults, generator, response>>

----------------------------------------------------------------------------
(* The bulk-operation engine.                                              *)

NoOp ==
    [kind |-> "none",
     selected |-> <<>>,         \* the snapshot taken by snapshotSelection
     destinationRoot |-> <<>>,  \* the argument: <<>> (none given) or <<root>>
     explicit |-> FALSE,        \* a destinationRoot was given
     destination |-> <<>>,
     parentDirectory |-> <<>>,
     attempt |-> 0,
     lastRandomName |-> "",
     candidate |-> <<>>,        \* path of the existence check in flight
     suffix |-> 0,
     probes |-> <<>>,           \* generate() and exists() calls of the resolution
     i |-> 0,                   \* index in selected of the entry in progress
     source |-> <<>>,
     target |-> <<>>,
     stack |-> <<>>,            \* pending copyEntryRecursive calls, first on top
     processed |-> <<>>,        \* result.processed
     failed |-> <<>>,           \* result.failed
     thrown |-> NoError,        \* the error the call rejects with, if any
     directory |-> <<>>,        \* listEntries: the argument
     entries |-> <<>>,          \* listEntries: the entries returned
     marks |-> <<>>]            \* Len(calls) when each entry was begun

(* Variant: the guard never throws.                                        *)
ensureSelection_neverThrows(sel) == FALSE

(* ensureSelection: does it throw?                                         *)
ensureSelection(sel) == Len(sel) = 0

NoEntriesSelected == OperationError("ensureSelection", "No entries selected.")

Step(p, o) == [pc |-> p, op |-> o]

(* Variant: the loop walks the snapshot from its last entry to its first.  *)
runOperation_for_reverse(o, i, n) ==
    IF i > Len(o.selected) THEN Step("done", [o EXCEPT !.i = i])
    ELSE LET source == o.selected[Len(o.selected) + 1 - i]
             target == IF o.kind = "delete" THEN <<>>
                       ELSE join(o.destination, basename(source))
             o1 == [o EXCEPT !.i = i, !.source = source, !.target = target,
                             !.marks = Append(@, n)]
         IN  CASE o.kind = "copy" ->
                    Step("stat", [o1 EXCEPT !.stack =
                                     <<[source |-> source, destination |-> target]>>])
               [] o.kind = "move" -> Step("rename", o1)
               [] OTHER -> Step("deleteRm", o1)

(* runOperation: the for loop reaches entry i, after n calls so far; the   *)
(* performer runs up to its first port call.                               *)
runOperation_for(o, i, n) ==
    IF i > Len(o.selected) THEN Step("done", [o EXCEPT !.i = i])
    ELSE LET source == o.selected[i]
             target == IF o.kind = "delete" THEN <<>>
                       ELSE join(o.destination, basename(source))
             o1 == [o EXCEPT !.i = i, !.source = source, !.target = target,
                             !.marks = Append(@, n)]
         IN  CASE o.kind = "copy" ->
                    Step("stat", [o1 EXCEPT !.stack =
                                     <<[source |-> source, destination |-> target]>>])
               [] o.kind = "move" -> Step("rename", o1)
               [] OTHER -> Step("deleteRm", o1)

(* runOperation: result.processed.push(processed), then the next entry     *)
runOperation_try(o, processed, n) ==
    runOperation_for([o EXCEPT !.processed = Append(@, processed), !.stack = <<>>],
                     o.i + 1, n)

(* Variant: the catch swallows the error without recording the source.    *)
runOperation_catch_swallow(o, error, n) ==
    runOperation_for([o EXCEPT !.stack = <<>>], o.i + 1, n)

(* Variant: the catch records the failure and rethrows, ending the loop.   *)
runOperation_catch_rethrow(o, error, n) ==
    Step("done", [o EXCEPT !.failed = Append(@, [path |-> o.source, error |-> error]),
                           !.stack = <<>>, !.thrown = error])

(* Variant: the failure is recorded under the path the failing call was    *)
(* copying, not under the entry's own path.                                *)
runOperation_catch_nested(o, error, n) ==
    runOperation_for([o EXCEPT !.failed = Append(@,
                                   [path |-> IF o.stack # <<>> THEN Head(o.stack).source
                                             ELSE o.source,
                                    error |-> error]),
                               !.stack = <<>>],
                     o.i + 1, n)

(* runOperation: catch (error) { result.failed.push(...) }, then the next  *)
runOperation_catch(o, error, n) ==
    runOperation_for([o EXCEPT !.failed = Append(@, [path |-> o.source, error |-> error]),
                               !.stack = <<>>],
                     o.i + 1, n)

(* The performers' code after their awaits: the selection they leave and   *)
(* the path they return.                                                   *)
(* Variants: the copy performer returns its source; it selects the copy.   *)
copySelection_performer_source(sel, source, target) ==
    [selection |-> sel, processed |-> source]

copySelection_performer_selects(sel, source, target) ==
    [selection |-> SetAdd(sel, target), processed |-> target]

copySelection_performer(sel, source, target) ==
    [selection |-> sel, processed |-> target]

(* Variants: the move performer keeps its source selected; it returns its  *)
(* source.                                                                 *)
moveSelection_performer_keepsSource(sel, source, target) ==
    [selection |-> SetAdd(sel, target), processed |-> target]

moveSelection_performer_source(sel, source, target) ==
    [selection |-> SetAdd(SetDelete(sel, source), target), processed |-> source]

moveSelection_performer(sel, source, target) ==
    [selection |-> SetAdd(SetDelete(sel, source), target), processed |-> target]

(* Variant: the delete performer leaves its source selected.               *)
deleteSelection_performer_keeps(sel, source) ==
    [selection |-> sel, processed |-> source]

(* Variant: the delete performer deselects the oldest member.              *)
deleteSelection_performer_oldest(sel, source) ==
    [selection |-> IF sel = <<>> THEN sel ELSE Tail(sel), processed |-> source]

(* Variant: the delete performer empties the selection.                    *)
deleteSelection_performer_clears(sel, source) ==
    [selection |-> <<>>, processed |-> source]

deleteSelection_performer(sel, source) ==
    [selection |-> SetDelete(sel, source), processed |-> source]

(* resolveDestination up to its first port call (generate() is synchronous *)
(* and precedes the existence check of its name).                          *)
Probe(call, ret) == [call |-> call, ret |-> ret]

tryRandomDestination_generate(o, name) ==
    [o EXCEPT !.lastRandomName = name, !.candidate = join(o.parentDirectory, name),
              !.probes = Append(@, Probe("generate", ""))]

(* Variant: a given root is used without being created.                    *)
resolveDestination_notCreated(o, destinationRoot, name) ==
    IF destinationRoot # <<>>
    THEN runOperation_for(
             [o EXCEPT !.explicit = TRUE, !.destination = resolve(destinationRoot[1])],
             1, 0)
    ELSE IF o.selected = <<>>
    THEN Step("done", [o EXCEPT !.thrown = OperationError("dirname", "ERR_INVALID_ARG_TYPE")])
    ELSE Step("existsRandom",
              tryRandomDestination_generate(
                  [o EXCEPT !.parentDirectory = dirname(o.selected[1]), !.attempt = 0],
                  name))

(* Variant: a given root is treated as the parent of a generated name.     *)
resolveDestination_generatesInRoot(o, destinationRoot, name) ==
    IF o.selected = <<>>
    THEN Step("done", [o EXCEPT !.thrown = OperationError("dirname", "ERR_INVALID_ARG_TYPE")])
    ELSE Step("existsRandom",
              tryRandomDestination_generate(
                  [o EXCEPT !.explicit = destinationRoot # <<>>,
                            !.parentDirectory = IF destinationRoot # <<>>
                                                THEN resolve(destinationRoot[1])
                                                ELSE dirname(o.selected[1]),
                            !.attempt = 0],
                  name))

(* Variant: the parent directory is that of the last selected entry.       *)
resolveDestination_lastEntry(o, destinationRoot, name) ==
    IF destinationRoot # <<>>
    THEN Step("mkdirDestination",
              [o EXCEPT !.explicit = TRUE, !.destination = resolve(destinationRoot[1])])
    ELSE IF o.selected = <<>>
    THEN Step("done", [o EXCEPT !.thrown = OperationError("dirname", "ERR_INVALID_ARG_TYPE")])
    ELSE Step("existsRandom",
              tryRandomDestination_generate(
                  [o EXCEPT !.parentDirectory = dirname(o.selected[Len(o.selected)]),
                            !.attempt = 0],
                  name))

resolveDestination(o, destinationRoot, name) ==
    IF destinationRoot # <<>>
    THEN Step("mkdirDestination",
              [o EXCEPT !.explicit = TRUE, !.destination = resolve(destinationRoot[1])])
    ELSE IF o.selected = <<>>       \* path.dirname(undefined) throws
    THEN Step("done", [o EXCEPT !.thrown = OperationError("dirname", "ERR_INVALID_ARG_TYPE")])
    ELSE Step("existsRandom",
              tryRandomDestination_generate(
                  [o EXCEPT !.parentDirectory = dirname(o.selected[1]), !.attempt = 0],
                  name))

(* snapshotSelection, then the operation up to its first port call.        *)
(* destinationRoot is <<>> (none given) or <<root>>.                       *)
Begin(kind, destinationRoot) ==
    /\ pc = "idle"
    /\ callCount < MaxCalls
    /\ callCount' = callCount + 1
    /\ IF ensureSelection(selection)
       THEN /\ pc' = "done"
            /\ op' = [NoOp EXCEPT !.kind = kind, !.thrown = NoEntriesSelected]
            /\ calls' = calls
       ELSE LET o == [NoOp EXCEPT !.kind = kind, !.selected = selection,
                                  !.destinationRoot = destinationRoot]
            IN  IF kind = "delete"
                THEN /\ pc' = runOperation_for(o, 1, 0).pc
                     /\ op' = runOperation_for(o, 1, 0).op
                     /\ calls' = calls
                ELSE \E name \in GeneratedNames :
                        LET st == resolveDestination(o, destinationRoot, name)
                        IN  /\ pc' = st.pc
                            /\ op' = st.op
                            /\ calls' = calls
    /\ UNCHANGED <<selection, fs, faults, generator, response>>

copySelection(destinationRoot) == Begin("copy", destinationRoot)

moveSelection(destinationRoot) == Begin("move", destinationRoot)

deleteSelection == Begin("delete", <<>>)

----------------------------------------------------------------------------
(* Destination resolution, one step per existence check.  Its generate()   *)
(* and exists() calls are recorded in op.probes, without the name they are *)
(* about (that is op.lastRandomName and op.candidate while the check is in *)
(* flight).  The locals of the resolution and this record end with it,     *)
(* when the destination is created.                                        *)

(* tryRandomDestination: the loop after the existence check of the random  *)
(* candidate has answered found, up to the next check (name is what the    *)
(* generator returns next); after maxAttempts collisions,                  *)
(* generateNumberedDestination starts at suffix 1 on the last random name  *)
(* (lastRandomName ?? generate(): a fresh name if there is none).          *)
ExistsProbe(found) == Probe("exists", IF found THEN "true" ELSE "false")

generateNumberedDestination_begin(o, name) ==
    LET o1 == IF o.lastRandomName = ""
              THEN [o EXCEPT !.lastRandomName = name,
                             !.probes = Append(@, Probe("generate", ""))]
              ELSE o
    IN  [o1 EXCEPT !.suffix = 1,
                   !.candidate = join(o1.parentDirectory,
                                      numberedName(o1.lastRandomName, 1))]

(* Variant: the loop condition is attempt <= maxAttempts.                  *)
tryRandomDestination_step_extraAttempt(o, found, name) ==
    LET o1 == [o EXCEPT !.probes = Append(@, ExistsProbe(found))]
    IN  IF ~found
        THEN Step("mkdirDestination", [o1 EXCEPT !.destination = o.candidate])
        ELSE IF o.attempt + 1 <= maxAttempts
        THEN Step("existsRandom",
                  tryRandomDestination_generate([o1 EXCEPT !.attempt = o.attempt + 1], name))
        ELSE Step("existsNumbered",
                  generateNumberedDestination_begin([o1 EXCEPT !.attempt = o.attempt + 1], name))

tryRandomDestination_step(o, found, name) ==
    LET o1 == [o EXCEPT !.probes = Append(@, ExistsProbe(found))]
    IN  IF ~found
        THEN Step("mkdirDestination", [o1 EXCEPT !.destination = o.candidate])
        ELSE IF o.attempt + 1 < maxAttempts
        THEN Step("existsRandom",
                  tryRandomDestination_generate([o1 EXCEPT !.attempt = o.attempt + 1], name))
        ELSE Step("existsNumbered",
                  generateNumberedDestination_begin([o1 EXCEPT !.attempt = o.attempt + 1], name))

tryRandomDestination_exists ==
    /\ pc = "existsRandom"
    /\ \E name \in GeneratedNames :
          LET st == tryRandomDestination_step(op, exists(fs, op.candidate), name)
          IN  /\ pc' = st.pc
              /\ op' = st.op
    /\ UNCHANGED <<selection, fs, calls, faults, callCount, generator, response>>

(* generateNumberedDestination: the loop after the existence check of      *)
(* `${baseName}-${suffix}` has answered found.                             *)
(* Variants: the suffix grows by two; the first numbered name is returned  *)
(* whatever the check answers.                                             *)
generateNumberedDestination_step_skips(o, found) ==
    LET o1 == [o EXCEPT !.probes = Append(@, ExistsProbe(found))]
    IN  IF ~found
        THEN Step("mkdirDestination", [o1 EXCEPT !.destination = o.candidate])
        ELSE Step("existsNumbered",
                  [o1 EXCEPT !.suffix = o.suffix + 2,
                             !.candidate = join(o.parentDirectory,
                                                numberedName(o.lastRandomName, o.suffix + 2))])

generateNumberedDestination_step_unchecked(o, found) ==
    Step("mkdirDestination",
         [o EXCEPT !.probes = Append(@, ExistsProbe(found)), !.destination = o.candidate])

generateNumberedDestination_step(o, found) ==
    LET o1 == [o EXCEPT !.probes = Append(@, ExistsProbe(found))]
    IN  IF ~found
        THEN Step("mkdirDestination", [o1 EXCEPT !.destination = o.candidate])
        ELSE Step("existsNumbered",
                  [o1 EXCEPT !.suffix = o.suffix + 1,
                             !.candidate = join(o.parentDirectory,
                                                numberedName(o.lastRandomName, o.suffix + 1))])

generateNumberedDestination_exists ==
    /\ pc = "existsNumbered"
    /\ LET st == generateNumberedDestination_step(op, exists(fs, op.candidate))
       IN  /\ pc' = st.pc
           /\ op' = st.op
    /\ UNCHANGED <<selection, fs, calls, faults, callCount, generator, response>>

(* copySelection / moveSelection: await fsPort.mkdir(destination, ...),    *)
(* outside runOperation's try: its failure rejects the whole call.         *)
(* Variant: the creation of the destination is inside a try that ignores   *)
(* its failure.                                                            *)
mkdirDestination_step_ignore(o, err, n) ==
    runOperation_for([o EXCEPT !.attempt = 0, !.lastRandomName = "", !.candidate = <<>>,
                               !.suffix = 0, !.probes = <<>>], 1, n)

mkdirDestination_step(o, err, n) ==
    LET o1 == [o EXCEPT !.attempt = 0, !.lastRandomName = "", !.candidate = <<>>,
                        !.suffix = 0, !.probes = <<>>]
    IN  IF err # ""
        THEN Step("done", [o1 EXCEPT !.thrown = OperationError("mkdir", err)])
        ELSE runOperation_for(o1, 1, n)

mkdirDestination ==
    /\ pc = "mkdirDestination"
    /\ \E err \in Failures(mkdirError(fs, op.destination), "EACCES") :
          LET st == mkdirDestination_step(op, err, Len(calls) + 1)
          IN  /\ pc' = st.pc
              /\ op' = st.op
              /\ calls' = Logged("mkdir", op.destination, <<>>, err, "")
              /\ fs' = IF err = "" THEN mkdirApply(fs, op.destination) ELSE fs
              /\ faults' = FaultsAfter(mkdirError(fs, op.destination), err)
    /\ UNCHANGED <<selection, callCount, generator, response>>

----------------------------------------------------------------------------
(* Per-entry processing, one step per port call.                           *)

Outcome(p, o, sel) == [pc |-> p, op |-> o, selection |-> sel]

(* The performer of the entry in progress has resolved.                    *)
performer_resolved(o, sel, n) ==
    LET r == CASE o.kind = "copy" -> copySelection_performer(sel, o.source, o.target)
               [] o.kind = "move" -> moveSelection_performer(sel, o.source, o.target)
               [] OTHER -> deleteSelection_performer(sel, o.source)
        st == runOperation_try(o, r.processed, n)
    IN  Outcome(st.pc, st.op, r.selection)

(* The performer of the entry in progress has rejected with error.         *)
performer_rejected(o, sel, error, n) ==
    LET st == runOperation_catch(o, error, n)
    IN  Outcome(st.pc, st.op, sel)

(* copyEntryRecursive: the call on top of the stack has returned; the      *)
(* outermost one returns to copySelection's performer or to moveEntry.     *)
copyEntryRecursive_return(o, rest, sel, n) ==
    IF rest # <<>> THEN Outcome("stat", [o EXCEPT !.stack = rest], sel)
    ELSE IF o.kind = "copy" THEN performer_resolved(o, sel, n)
    ELSE Outcome("moveRm", [o EXCEPT !.stack = <<>>], sel)

(* const stats = await this.fsPort.stat(source)                            *)
copyEntryRecursive_stat ==
    /\ pc = "stat"
    /\ LET fr == Head(op.stack)
           nat == statError(fs, fr.source)
       IN  \E err \in Failures(nat, "EIO") :
              LET out == IF err # ""
                         THEN performer_rejected(op, selection,
                                  OperationError("stat", err), Len(calls) + 1)
                         ELSE Outcome(IF fs[fr.source].type = "directory"
                                      THEN "mkdirDir" ELSE "mkdirParent", op, selection)
              IN  /\ pc' = out.pc
                  /\ op' = out.op
                  /\ selection' = out.selection
                  /\ calls' = Logged("stat", fr.source, <<>>, err,
                                     IF err = "" THEN fs[fr.source].type ELSE "")
                  /\ faults' = FaultsAfter(nat, err)
    /\ UNCHANGED <<fs, callCount, generator, response>>

(* directory: await this.fsPort.mkdir(destination, { recursive: true })    *)
copyEntryRecursive_mkdirDir ==
    /\ pc = "mkdirDir"
    /\ LET fr == Head(op.stack)
           nat == mkdirError(fs, fr.destination)
       IN  \E err \in Failures(nat, "EACCES") :
              LET out == IF err # ""
                         THEN performer_rejected(op, selection,
                                  OperationError("mkdir", err), Len(calls) + 1)
                         ELSE Outcome("readDir", op, selection)
              IN  /\ pc' = out.pc
                  /\ op' = out.op
                  /\ selection' = out.selection
                  /\ calls' = Logged("mkdir", fr.destination, <<>>, err, "")
                  /\ fs' = IF err = "" THEN mkdirApply(fs, fr.destination) ELSE fs
                  /\ faults' = FaultsAfter(nat, err)
    /\ UNCHANGED <<callCount, generator, response>>

(* directory: const entries = await this.fsPort.readDir(source), then the  *)
(* loop over the entries: the nested calls go on the stack, in order.      *)
NestedCalls(fr, entries) ==
    [k \in 1..Len(entries) |->
        [source |-> join(fr.source, entries[k].name),
         destination |-> join(fr.destination, entries[k].name)]]

copyEntryRecursive_readDir ==
    /\ pc = "readDir"
    /\ LET fr == Head(op.stack)
           nat == readDirError(fs, fr.source)
       IN  \E err \in Failures(nat, "EIO") :
              \E entries \in (IF err = "" THEN readDirResults(fs, fr.source) ELSE {<<>>}) :
                 LET out == IF err # ""
                            THEN performer_rejected(op, selection,
                                     OperationError("readDir", err), Len(calls) + 1)
                            ELSE copyEntryRecursive_return(op,
                                     NestedCalls(fr, entries) \o Tail(op.stack),
                                     selection, Len(calls) + 1)
                 IN  /\ pc' = out.pc
                     /\ op' = out.op
                     /\ selection' = out.selection
                     /\ calls' = Logged("readDir", fr.source, <<>>, err, "")
                     /\ faults' = FaultsAfter(nat, err)
    /\ UNCHANGED <<fs, callCount, generator, response>>

(* file: await this.fsPort.mkdir(path.dirname(destination), ...)           *)
copyEntryRecursive_mkdirParent ==
    /\ pc = "mkdirParent"
    /\ LET fr == Head(op.stack)
           nat == mkdirError(fs, dirname(fr.destination))
       IN  \E err \in Failures(nat, "EACCES") :
              LET out == IF err # ""
                         THEN performer_rejected(op, selection,
                                  OperationError("mkdir", err), Len(calls) + 1)
                         ELSE Outcome("copyFile", op, selection)
              IN  /\ pc' = out.pc
                  /\ op' = out.op
                  /\ selection' = out.selection
                  /\ calls' = Logged("mkdir", dirname(fr.destination), <<>>, err, "")
                  /\ fs' = IF err = "" THEN mkdirApply(fs, dirname(fr.destination)) ELSE fs
                  /\ faults' = FaultsAfter(nat, err)
    /\ UNCHANGED <<callCount, generator, response>>

(* file: await this.fsPort.copyFile(source, destination)                   *)
copyEntryRecursive_copyFile ==
    /\ pc = "copyFile"
    /\ LET fr == Head(op.stack)
           nat == copyFileError(fs, fr.source, fr.destination)
       IN  \E err \in Failures(nat, "EIO") :
              LET out == IF err # ""
                         THEN performer_rejected(op, selection,
                                  OperationError("copyFile", err), Len(calls) + 1)
                         ELSE copyEntryRecursive_return(op, Tail(op.stack),
                                  selection, Len(calls) + 1)
              IN  /\ pc' = out.pc
                  /\ op' = out.op
                  /\ selection' = out.selection
                  /\ calls' = Logged("copyFile", fr.source, fr.destination, err, "")
                  /\ fs' = IF err = "" THEN copyFileApply(fs, fr.source, fr.destination) ELSE fs
                  /\ faults' = FaultsAfter(nat, err)
    /\ UNCHANGED <<callCount, generator, response>>

(* moveEntry: try { await this.fsPort.rename(source, destination) }        *)
(* catch { await this.copyEntryRecursive(source, destination) ... }        *)
(* Variant: no fallback, the rename's error rejects the performer.         *)
moveEntry_catch_rethrow(o, sel, err, n) ==
    performer_rejected(o, sel, OperationError("rename", err), n)

(* Variant: the fallback removes the source without copying it.            *)
moveEntry_catch_removes(o, sel, err, n) == Outcome("moveRm", o, sel)

moveEntry_catch(o, sel, err, n) ==
    Outcome("stat",
            [o EXCEPT !.stack = <<[source |-> o.source, destination |-> o.target]>>],
            sel)

moveEntry_rename ==
    /\ pc = "rename"
    /\ LET nat == renameError(fs, op.source, op.target)
       IN  \E err \in Failures(nat, "EXDEV") :
              LET out == IF err # ""
                         THEN moveEntry_catch(op, selection, err, Len(calls) + 1)
                         ELSE performer_resolved(op, selection, Len(calls) + 1)
              IN  /\ pc' = out.pc
                  /\ op' = out.op
                  /\ selection' = out.selection
                  /\ calls' = Logged("rename", op.source, op.target, err, "")
                  /\ fs' = IF err = "" THEN renameApply(fs, op.source, op.target) ELSE fs
                  /\ faults' = FaultsAfter(nat, err)
    /\ UNCHANGED <<callCount, generator, response>>

(* moveEntry: await this.fsPort.rm(source, { recursive: true, force: true }) *)
moveEntry_rm ==
    /\ pc = "moveRm"
    /\ LET nat == rmError(fs, op.source)
       IN  \E err \in Failures(nat, "EACCES") :
              LET out == IF err # ""
                         THEN performer_rejected(op, selection,
                                  OperationError("rm", err), Len(calls) + 1)
                         ELSE performer_resolved(op, selection, Len(calls) + 1)
              IN  /\ pc' = out.pc
                  /\ op' = out.op
                  /\ selection' = out.selection
                  /\ calls' = Logged("rm", op.source, <<>>, err, "")
                  /\ fs' = IF err = "" THEN rmApply(fs, op.source) ELSE fs
                  /\ faults' = FaultsAfter(nat, err)
    /\ UNCHANGED <<callCount, generator, response>>

(* deleteSelection: await this.fsPort.rm(source, { recursive: true, force: true }) *)
deleteSelection_rm ==
    /\ pc = "deleteRm"
    /\ LET nat == rmError(fs, op.source)
       IN  \E err \in Failures(nat, "EACCES") :
              LET out == IF err # ""
                         THEN performer_rejected(op, selection,
                                  OperationError("rm", err), Len(calls) + 1)
                         ELSE performer_resolved(op, selection, Len(calls) + 1)
              IN  /\ pc' = out.pc
                  /\ op' = out.op
                  /\ selection' = out.selection
                  /\ calls' = Logged("rm", op.source, <<>>, err, "")
                  /\ fs' = IF err = "" THEN rmApply(fs, op.source) ELSE fs
                  /\ faults' = FaultsAfter(nat, err)
    /\ UNCHANGED <<callCount, generator, response>>

(* The call settles: its result or error goes to the caller (for a call    *)
(* made by a request handler, after the handler has answered).             *)
Return ==
    /\ pc \in {"done", "responded"}
    /\ pc' = "idle"
    /\ op' = NoOp
    /\ calls' = <<>>
    /\ UNCHANGED <<selection, fs, faults, callCount, generator, response>>

----------------------------------------------------------------------------
(* Directory listing.                                                      *)

(* toFileEntry: the entry of a child reported by the port                  *)
toFileEntry(directory, dirent) ==
    [path |-> join(directory, dirent.name), name |-> dirent.name, type |-> dirent.type]

(* The names of the entries of the model in the order of the collation     *)
(* that localeCompare applies: letters compare before their case.          *)
CollationOrder == <<"package.json", "README.md", "src">>

Position(order, name) == CHOOSE k \in 1..Len(order) : order[k] = name

(* a.localeCompare(b): negative, zero or positive                          *)
localeCompare(a, b) == Position(CollationOrder, a) - Position(CollationOrder, b)

(* Array.prototype.sort with (a, b) => a.name.localeCompare(b.name): a     *)
(* stable sort, as the insertion of each entry after those not above it.   *)
RECURSIVE insertByName(_, _)
insertByName(sorted, entry) ==
    IF sorted = <<>> THEN <<entry>>
    ELSE IF localeCompare(entry.name, Head(sorted).name) < 0 THEN <<entry>> \o sorted
    ELSE <<Head(sorted)>> \o insertByName(Tail(sorted), entry)

(* Variant: the entries stay in the order of the port.                     *)
sortByName_asListed(entries) == entries

RECURSIVE sortByName(_)
sortByName(entries) ==
    IF entries = <<>> THEN <<>>
    ELSE insertByName(sortByName(SubSeq(entries, 1, Len(entries) - 1)),
                      entries[Len(entries)])

(* listEntries(directory), up to its call of fsPort.readDir                *)
listEntries(directory) ==
    /\ pc = "idle"
    /\ callCount < MaxCalls
    /\ callCount' = callCount + 1
    /\ pc' = "listEntries"
    /\ op' = [NoOp EXCEPT !.kind = "list", !.directory = directory]
    /\ UNCHANGED <<selection, fs, calls, faults, generator, response>>

(* const entries = await this.fsPort.readDir(absoluteDirectory), then the  *)
(* entries mapped and sorted; a failure of readDir rejects the call.       *)
listEntries_readDir ==
    /\ pc = "listEntries"
    /\ LET absoluteDirectory == resolve(op.directory)
           nat == readDirError(fs, absoluteDirectory)
       IN  \E err \in Failures(nat, "EACCES") :
              \E dirents \in (IF err = "" THEN readDirResults(fs, absoluteDirectory)
                              ELSE {<<>>}) :
                 /\ op' = IF err # ""
                          THEN [op EXCEPT !.thrown = OperationError("readDir", err)]
                          ELSE [op EXCEPT !.entries =
                                   sortByName([k \in 1..Len(dirents) |->
                                       toFileEntry(absoluteDirectory, dirents[k])])]
                 /\ calls' = Logged("readDir", absoluteDirectory, <<>>, err, "")
                 /\ faults' = FaultsAfter(nat, err)
    /\ pc' = "done"
    /\ UNCHANGED <<selection, fs, callCount, generator, response>>

----------------------------------------------------------------------------
(* The HTTP layer (src/src/api/server.ts): the body of the response to an  *)
(* operation request, built from the OperationResult and the explorer.     *)

MaxRequests == 3    \* requests made to the server in one behaviour

(* createFileExplorerApp({ allowedRoots })                                 *)
allowedRoots == { <<"r">>, <<"dst">> }

(* isWithinAllowed: the candidate is a root or lies below one              *)
isWithinAllowed(candidate) == \E root \in allowedRoots : IsPrefix(root, candidate)

(* A response: the number of responses sent so far, the request answered,  *)
(* the status and the JSON body.                                           *)
Response(request, status, body) ==
    [seq |-> response.seq + 1, request |-> request, status |-> status, body |-> body]

(* No request has been answered yet.                                       *)
NoResponse == [seq |-> 0, request |-> "", status |-> 0, body |-> [error |-> ""]]

OutsideRoots == OperationError("resolveWithinRoots", "Path is outside the allowed roots.")

(* normalizeOperationError: the message and the code of an Error           *)
normalizeOperationError(error) ==
    [message |-> error.code \o ": " \o error.call, code |-> error.code]

(* createOperationPayload: processed as returned, failed with normalised   *)
(* errors, selection from explorer.getSelection(), in insertion order      *)
createOperationPayload(result, sel, validationErrors) ==
    LET payload ==
            [processed |-> result.processed,
             failed |-> [k \in 1..Len(result.failed) |->
                           [path |-> result.failed[k].path,
                            error |-> normalizeOperationError(result.failed[k].error).message,
                            code |-> normalizeOperationError(result.failed[k].error).code]],
             selection |-> sel]
    IN  IF Len(validationErrors) > 0
        THEN [f \in DOMAIN payload \cup {"validationErrors"} |->
                 IF f = "validationErrors" THEN validationErrors ELSE payload[f]]
        ELSE payload

(* respondWithError: res.status(400).json({ error: message })              *)
respondWithError(request, error) ==
    Response(request, 400, [error |-> normalizeOperationError(error).message])

(* createSelectionPayload, sent with res.json                              *)
createSelectionPayload(request, sel) == Response(request, 200, [selection |-> sel])

failureMessage(kind) == "Failed to " \o kind \o " selection."

(* Variant: a result with failed entries is sent as a success.             *)
sendOperationResponse_always200(kind, result, sel, forceFailure, validationErrors) ==
    Response(kind, 200, createOperationPayload(result, sel, validationErrors))

(* sendOperationResponse: 422 with the failure message and the payload as  *)
(* details when forced or when an entry failed, else the payload           *)
sendOperationResponse(kind, result, sel, forceFailure, validationErrors) ==
    LET payload == createOperationPayload(result, sel, validationErrors)
    IN  IF forceFailure \/ Len(payload.failed) > 0
        THEN Response(kind, 422, [error |-> failureMessage(kind), details |-> payload])
        ELSE Response(kind, 200, payload)

SelectionCannotBeEmpty == <<"Selection cannot be empty.">>

(* A select or deselect request: resolveRequestPaths, which throws at the  *)
(* first path outside the roots, then the call on the explorer.            *)
post_selection_select(paths) ==
    /\ pc = "idle"
    /\ response.seq < MaxRequests
    /\ IF \E k \in 1..Len(paths) : ~isWithinAllowed(resolve(paths[k]))
       THEN /\ response' = respondWithError("select", OutsideRoots)
            /\ UNCHANGED <<selection, callCount>>
       ELSE /\ callCount' = callCount + 1
            /\ selection' = AddEach(selection, paths)
            /\ response' = createSelectionPayload("select", selection')
    /\ UNCHANGED <<fs, pc, op, calls, faults, generator>>

(* Variant: each path is removed as it is resolved, up to the first one    *)
(* outside the roots.                                                      *)
post_selection_deselect_partial(paths) ==
    /\ pc = "idle"
    /\ response.seq < MaxRequests
    /\ IF \E k \in 1..Len(paths) : ~isWithinAllowed(resolve(paths[k]))
       THEN LET first == CHOOSE k \in 1..Len(paths) :
                            /\ ~isWithinAllowed(resolve(paths[k]))
                            /\ \A j \in 1..(k - 1) : isWithinAllowed(resolve(paths[j]))
            IN  /\ response' = respondWithError("deselect", OutsideRoots)
                /\ selection' = DeleteEach(selection, SubSeq(paths, 1, first - 1))
                /\ UNCHANGED callCount
       ELSE /\ callCount' = callCount + 1
            /\ selection' = DeleteEach(selection, paths)
            /\ response' = createSelectionPayload("deselect", selection')
    /\ UNCHANGED <<fs, pc, op, calls, faults, generator>>

post_selection_deselect(paths) ==
    /\ pc = "idle"
    /\ response.seq < MaxRequests
    /\ IF \E k \in 1..Len(paths) : ~isWithinAllowed(resolve(paths[k]))
       THEN /\ response' = respondWithError("deselect", OutsideRoots)
            /\ UNCHANGED <<selection, callCount>>
       ELSE /\ callCount' = callCount + 1
            /\ selection' = DeleteEach(selection, paths)
            /\ response' = createSelectionPayload("deselect", selection')
    /\ UNCHANGED <<fs, pc, op, calls, faults, generator>>

post_selection_clear ==
    /\ pc = "idle"
    /\ response.seq < MaxRequests
    /\ callCount' = callCount + 1
    /\ selection' = <<>>
    /\ response' = createSelectionPayload("clear", selection')
    /\ UNCHANGED <<fs, pc, op, calls, faults, generator>>

(* Variant: the selection is never required.                               *)
performSelectionOperation_notRequired(kind, destinationRoot, requireSelection) ==
    Begin(kind, destinationRoot)

(* performSelectionOperation, up to the first port call of the operation:  *)
(* the validation response when a selection is required and there is none, *)
(* else the call of the bulk method of the explorer.                       *)
performSelectionOperation(kind, destinationRoot, requireSelection) ==
    IF requireSelection /\ Len(getSelection) = 0
    THEN /\ response' = sendOperationResponse(kind, [processed |-> <<>>, failed |-> <<>>],
                                              getSelection, TRUE, SelectionCannotBeEmpty)
         /\ UNCHANGED <<selection, fs, pc, op, calls, faults, callCount, generator>>
    ELSE Begin(kind, destinationRoot)

(* A copy or move request: parseDestinationRoot (absent, or resolved       *)
(* within the roots, or an error), then the operation.                     *)
BulkRequest(kind, destinationRoot, requireSelection) ==
    /\ pc = "idle"
    /\ response.seq < MaxRequests
    /\ IF destinationRoot # <<>> /\ ~isWithinAllowed(resolve(destinationRoot[1]))
       THEN /\ response' = respondWithError(kind, OutsideRoots)
            /\ UNCHANGED <<selection, fs, pc, op, calls, faults, callCount, generator>>
       ELSE performSelectionOperation(kind,
                IF destinationRoot = <<>> THEN <<>> ELSE <<resolve(destinationRoot[1])>>,
                requireSelection)

post_selection_copy(destinationRoot) == BulkRequest("copy", destinationRoot, FALSE)

post_selection_move(destinationRoot) == BulkRequest("move", destinationRoot, TRUE)

delete_selection == BulkRequest("delete", <<>>, TRUE)

(* The handler after await operation(): sendOperationResponse with the     *)
(* result, or respondWithError with what the operation threw.              *)
performSelectionOperation_settled ==
    /\ pc = "done"
    /\ op.kind \in {"copy", "move", "delete"}
    /\ pc' = "responded"
    /\ response' =
          IF op.thrown # NoError
          THEN respondWithError(op.kind, op.thrown)
          ELSE sendOperationResponse(op.kind,
                   [processed |-> op.processed, failed |-> op.failed],
                   getSelection, FALSE, <<>>)
    /\ UNCHANGED <<selection, fs, op, calls, faults, callCount, generator>>

----------------------------------------------------------------------------
(* The filesystem at the start and the inputs of the calls.                *)

InitialFs ==
    LET d == <<"r", "d">>
    IN  [q \in {<<>>, <<"r">>, <<"r", "a">>, d, Append(d, "f"),
                 <<"r", "calm-atlas">>, <<"r", "calm-atlas-1">>} |->
            IF q = <<"r", "a">> THEN FileNode(1)
            ELSE IF q = Append(d, "f") THEN FileNode(2)
            ELSE DirNode]

(* Paths a caller passes: a file, a directory, an absent path and an       *)
(* unnormalised spelling of the file.                                      *)
RawPaths == { <<"r", "a">>, <<"r", "d">>, <<"r", "m">>, <<"r", "d", "..", "a">> }

PathLists == UNION { [1..n -> RawPaths] : n \in 1..MaxPaths }

(* No destination root, or an unnormalised spelling of /dst.               *)
DestinationRoots == { <<>>, << <<"r", "..", "dst">> >> }

Init ==
    /\ selection = <<>>
    /\ fs = InitialFs
    /\ pc = "idle"
    /\ op = NoOp
    /\ calls = <<>>
    /\ faults = 0
    /\ callCount = 0
    /\ generator = DefaultGenerator
    /\ response = NoResponse

Next ==
    \/ pc = "idle" /\ \E paths \in PathLists : selectEntries(paths)
    \/ pc = "idle" /\ \E paths \in PathLists : deselectEntries(paths)
    \/ pc = "idle" /\ clearSelection
    \/ \E root \in DestinationRoots : copySelection(root)
    \/ \E root \in DestinationRoots : moveSelection(root)
    \/ deleteSelection
    \/ tryRandomDestination_exists
    \/ generateNumberedDestination_exists
    \/ mkdirDestination
    \/ copyEntryRecursive_stat
    \/ copyEntryRecursive_mkdirDir
    \/ copyEntryRecursive_readDir
    \/ copyEntryRecursive_mkdirParent
    \/ copyEntryRecursive_copyFile
    \/ moveEntry_rename
    \/ moveEntry_rm
    \/ deleteSelection_rm
    \/ Return

Spec == Init /\ [][Next]_vars

----------------------------------------------------------------------------
(* The resolution of a generated destination on its own: one entry is      *)
(* selected, the parent directory holds any subset of the names the        *)
(* resolution can ask about, and copySelection or moveSelection runs, with *)
(* no destination root, up to the creation of the destination it chose.    *)
(* The existence checks are awaited calls: once issued, each one answers   *)
(* and the code after it runs.                                             *)

MaxSuffix == 2      \* numbered names that may exist at the start for each name

ResolveNames ==
    GeneratedNames \cup { numberedName(n, k) : n \in GeneratedNames, k \in 1..MaxSuffix }

ResolveFs(taken) ==
    [q \in {<<>>, <<"r">>, <<"r", "a">>} \cup { <<"r", n>> : n \in taken } |->
        IF q = <<"r", "a">> THEN FileNode(1) ELSE DirNode]

ResolveInit ==
    /\ selection = << <<"r", "a">> >>
    /\ \E taken \in SUBSET ResolveNames : fs = ResolveFs(taken)
    /\ pc = "idle"
    /\ op = NoOp
    /\ calls = <<>>
    /\ faults = 0
    /\ callCount = 0
    /\ generator = DefaultGenerator
    /\ response = NoResponse

ResolveNext ==
    \/ copySelection(<<>>)
    \/ moveSelection(<<>>)
    \/ tryRandomDestination_exists
    \/ generateNumberedDestination_exists
    \/ mkdirDestination

ResolveSpec ==
    /\ ResolveInit
    /\ [][ResolveNext]_vars
    /\ WF_vars(tryRandomDestination_exists)
    /\ WF_vars(generateNumberedDestination_exists)

----------------------------------------------------------------------------
(* One copy or move over a selection drawn from a tree that has a file and *)
(* a directory side by side and, inside the directory, a file with the     *)
(* name of the first: the selection is any ordering of any of these paths  *)
(* and the destination is generated, a new directory, or the directory of  *)
(* the tree.  No generated name exists in the tree, so the first random    *)
(* trial is accepted.  A destination inside a selected source is left out: *)
(* there the recursive copy reads the directory it is writing into.        *)

TreeFs ==
    [q \in {<<>>, <<"r">>, <<"r", "a">>, <<"r", "d">>, <<"r", "d", "a">>} |->
        IF q = <<"r", "a">> THEN FileNode(1)
        ELSE IF q = <<"r", "d", "a">> THEN FileNode(2)
        ELSE DirNode]

TreePaths == { <<"r", "a">>, <<"r", "d">>, <<"r", "d", "a">> }

TreeSelections ==
    { sel \in UNION { [1..n -> TreePaths] : n \in 1..Cardinality(TreePaths) } :
        \A i, j \in 1..Len(sel) : i # j => sel[i] # sel[j] }

TreeRoots == { <<>>, << <<"dst">> >>, << <<"r", "d">> >> }

NotInsideSource(root) ==
    LET base == IF root = <<>> THEN dirname(selection[1]) ELSE resolve(root[1])
    IN  \A src \in Range(selection) : ~IsPrefix(src, base)

TreeInit ==
    /\ selection \in TreeSelections
    /\ fs = TreeFs
    /\ pc = "idle"
    /\ op = NoOp
    /\ calls = <<>>
    /\ faults = 0
    /\ callCount = 0
    /\ generator = DefaultGenerator
    /\ response = NoResponse

TreeNext ==
    \/ \E root \in TreeRoots : callCount = 0 /\ NotInsideSource(root) /\ copySelection(root)
    \/ \E root \in TreeRoots : callCount = 0 /\ NotInsideSource(root) /\ moveSelection(root)
    \/ tryRandomDestination_exists
    \/ mkdirDestination
    \/ copyEntryRecursive_stat
    \/ copyEntryRecursive_mkdirDir
    \/ copyEntryRecursive_readDir
    \/ copyEntryRecursive_mkdirParent
    \/ copyEntryRecursive_copyFile
    \/ moveEntry_rename
    \/ moveEntry_rm
    \/ Return

TreeSpec == TreeInit /\ [][TreeNext]_vars

----------------------------------------------------------------------------
(* The selection store and the listing on their own, over the directory of *)
(* the acceptance tests: a caller lists directories and selects, selects   *)
(* all of, deselects and clears paths and entries of them.                 *)

StoreFs ==
    [q \in {<<>>, <<"r">>, <<"r", "README.md">>, <<"r", "package.json">>,
             <<"r", "src">>} |->
        IF q \in {<<"r", "README.md">>, <<"r", "package.json">>}
        THEN FileNode(Len(q[2])) ELSE DirNode]

(* Paths a caller passes: a file, a directory, an unnormalised spelling of *)
(* the file and an absent path; in lists of up to MaxPaths, () included.   *)
StorePaths ==
    { <<"r", "README.md">>, <<"r", "src">>, <<"r", "src", "..", "README.md">>,
      <<"r", "m">> }

StoreLists == UNION { [1..n -> StorePaths] : n \in 0..MaxPaths }

(* Entries a caller passes to selectAll: those of the directory /r.        *)
StoreEntries ==
    { toFileEntry(<<"r">>, [name |-> basename(q), type |-> StoreFs[q].type]) :
        q \in Children(StoreFs, <<"r">>) }

EntryLists == UNION { [1..n -> StoreEntries] : n \in 0..MaxPaths }

(* Directories a caller lists: /r, an unnormalised spelling of it, its     *)
(* empty subdirectory, a file and an absent path.                          *)
ListDirectories ==
    { <<"r">>, <<"r", "src", "..">>, <<"r", "src">>, <<"r", "README.md">>, <<"r", "m">> }

StoreInit ==
    /\ selection = <<>>
    /\ fs = StoreFs
    /\ pc = "idle"
    /\ op = NoOp
    /\ calls = <<>>
    /\ faults = 0
    /\ callCount = 0
    /\ generator = DefaultGenerator
    /\ response = NoResponse

StoreNext ==
    \/ pc = "idle" /\ \E paths \in StoreLists : selectEntries(paths)
    \/ pc = "idle" /\ \E entries \in EntryLists : selectAll(entries)
    \/ pc = "idle" /\ \E paths \in StoreLists : deselectEntries(paths)
    \/ pc = "idle" /\ clearSelection
    \/ \E directory \in ListDirectories : listEntries(directory)
    \/ listEntries_readDir
    \/ Return

StoreSpec == StoreInit /\ [][StoreNext]_vars

----------------------------------------------------------------------------
(* The name generator on its own: it is constructed with any two           *)
(* dictionaries of up to MaxWords words and, if that succeeds, asked for   *)
(* names, the random port yielding any values.                             *)

MaxWords == 2       \* words in a dictionary given to the constructor

WordLists(words) == UNION { [1..n -> words] : n \in 0..MaxWords }

GeneratorInit ==
    /\ selection = <<>>
    /\ fs = InitialFs
    /\ pc = "idle"
    /\ op = NoOp
    /\ calls = <<>>
    /\ faults = 0
    /\ callCount = 0
    /\ \E adj \in WordLists({"calm", "bold"}), nns \in WordLists({"atlas", "delta"}) :
          generator = NewGenerator(adj, nns)
    /\ response = NoResponse

GeneratorNext ==
    \/ newRandomDirectoryNameGenerator
    \/ generate_call

GeneratorSpec == GeneratorInit /\ [][GeneratorNext]_vars

----------------------------------------------------------------------------
(* The HTTP layer over the engine: a client that makes one request at a    *)
(* time, up to MaxRequests of them, with these bodies.                     *)

(* paths: a file; a directory and an absent path; the file and a path      *)
(* outside the allowed roots.                                              *)
RequestPaths ==
    { << <<"r", "a">> >>,
      << <<"r", "d">>, <<"r", "m">> >>,
      << <<"r", "a">>, <<"x", "out">> >> }

(* destinationRoot: absent, inside the roots, outside the roots.           *)
RequestRoots == { <<>>, << <<"dst">> >>, << <<"x">> >> }

ApiInit ==
    /\ selection = <<>>
    /\ fs = InitialFs
    /\ pc = "idle"
    /\ op = NoOp
    /\ calls = <<>>
    /\ faults = 0
    /\ callCount = 0
    /\ generator = DefaultGenerator
    /\ response = NoResponse

ApiNext ==
    \/ \E paths \in RequestPaths : post_selection_select(paths)
    \/ \E paths \in RequestPaths : post_selection_deselect(paths)
    \/ post_selection_clear
    \/ \E root \in RequestRoots : post_selection_copy(root)
    \/ \E root \in RequestRoots : post_selection_move(root)
    \/ delete_selection
    \/ tryRandomDestination_exists
    \/ generateNumberedDestination_exists
    \/ mkdirDestination
    \/ copyEntryRecursive_stat
    \/ copyEntryRecursive_mkdirDir
    \/ copyEntryRecursive_readDir
    \/ copyEntryRecursive_mkdirParent
    \/ copyEntryRecursive_copyFile
    \/ moveEntry_rename
    \/ moveEntry_rm
    \/ deleteSelection_rm
    \/ performSelectionOperation_settled
    \/ pc = "responded" /\ Return

ApiSpec == ApiInit /\ [][ApiNext]_vars

----------------------------------------------------------------------------
(* The same client when an allowed root itself is selected.  The parent of *)
(* the root holds both names the generator can return.                     *)

SandboxFs ==
    [q \in {<<>>, <<"r">>, <<"r", "a">>} \cup { <<name>> : name \in GeneratedNames } |->
        IF q = <<"r", "a">> THEN FileNode(1) ELSE DirNode]

(* paths: the allowed root /r; /r and a path outside the roots.            *)
SandboxPaths ==
    { << <<"r">> >>,
      << <<"r">>, <<"x", "out">> >> }

SandboxInit ==
    /\ selection = <<>>
    /\ fs = SandboxFs
    /\ pc = "idle"
    /\ op = NoOp
    /\ calls = <<>>
    /\ faults = 0
    /\ callCount = 0
    /\ generator = DefaultGenerator
    /\ response = NoResponse

SandboxNext ==
    \/ \E paths \in SandboxPaths : post_selection_select(paths)
    \/ \E paths \in SandboxPaths : post_selection_deselect(paths)
    \/ post_selection_clear
    \/ \E root \in RequestRoots : post_selection_copy(root)
    \/ \E root \in RequestRoots : post_selection_move(root)
    \/ delete_selection
    \/ tryRandomDestination_exists
    \/ generateNumberedDestination_exists
    \/ mkdirDestination
    \/ copyEntryRecursive_stat
    \/ copyEntryRecursive_mkdirDir
    \/ copyEntryRecursive_readDir
    \/ copyEntryRecursive_mkdirParent
    \/ copyEntryRecursive_copyFile
    \/ moveEntry_rename
    \/ moveEntry_rm
    \/ deleteSelection_rm
    \/ performSelectionOperation_settled
    \/ pc = "responded" /\ Return

SandboxSpec == SandboxInit /\ [][SandboxNext]_vars

----------------------------------------------------------------------------
(* The explorer under a caller that does not await its bulk operations:    *)
(* select, deselect and clear are synchronous, so they run to completion   *)
(* whenever the operation in flight is suspended on a port call (any       *)
(* position but "done", where the call is settling).                       *)

InterleavedLists == { <<p>> : p \in RawPaths }

Suspended == pc \notin {"idle", "done"}

InterleaveNext ==
    \/ Next
    \/ Suspended /\ \E paths \in InterleavedLists : selectEntries(paths)
    \/ Suspended /\ \E paths \in InterleavedLists : deselectEntries(paths)
    \/ Suspended /\ clearSelection

InterleaveSpec == Init /\ [][InterleaveNext]_vars

----------------------------------------------------------------------------
(* The explorer next to another writer of the same directory: a second,    *)
(* overlapping copySelection or moveSelection of the explorer whose        *)
(* generator returned the same name, or another process.  Between the      *)
(* existence check that accepted the destination and the creation of the   *)
(* destination, the other writer's mkdir(destination, { recursive: true }) *)
(* completes.                                                              *)
overlapping_mkdirDestination ==
    /\ pc = "mkdirDestination"
    /\ ~op.explicit
    /\ op.destination \notin DOMAIN fs
    /\ mkdirError(fs, op.destination) = ""
    /\ fs' = mkdirApply(fs, op.destination)
    /\ UNCHANGED <<selection, pc, op, calls, faults, callCount, generator, response>>

OverlapNext ==
    \/ Next
    \/ overlapping_mkdirDestination

OverlapSpec == Init /\ [][OverlapNext]_vars

----------------------------------------------------------------------------
(* copySelection and moveSelection on a tree where the destination lies    *)
(* inside a selected directory: the root /r/d/x is given while /r/d is     *)
(* selected, or no root is given and the first selected entry is a child   *)
(* of a selected directory, so that the generated destination is created   *)
(* in that directory, where one generated name is taken.  The operation    *)
(* starts on the tree NestedFs.  The log of port calls is followed up to   *)
(* MaxLog calls.                                                           *)

MaxLog == 48        \* port calls of one operation that a behaviour follows

NestedFs ==
    [q \in {<<>>, <<"r">>, <<"r", "d">>, <<"r", "d", "f">>, <<"r", "d", "calm-atlas">>} |->
        IF q = <<"r", "d", "f">> THEN FileNode(2) ELSE DirNode]

NestedLists == { << <<"r", "d">> >>, << <<"r", "d", "f">>, <<"r", "d">> >> }

NestedRoots == { <<>>, << <<"r", "d", "x">> >> }

NestedInit ==
    /\ selection = <<>>
    /\ fs = NestedFs
    /\ pc = "idle"
    /\ op = NoOp
    /\ calls = <<>>
    /\ faults = 0
    /\ callCount = 0
    /\ generator = DefaultGenerator
    /\ response = NoResponse

NestedNext ==
    \/ pc = "idle" /\ \E paths \in NestedLists : selectEntries(paths)
    \/ fs = NestedFs /\ \E root \in NestedRoots : copySelection(root)
    \/ fs = NestedFs /\ \E root \in NestedRoots : moveSelection(root)
    \/ tryRandomDestination_exists
    \/ generateNumberedDestination_exists
    \/ mkdirDestination
    \/ Len(calls) < MaxLog /\ copyEntryRecursive_stat
    \/ copyEntryRecursive_mkdirDir
    \/ copyEntryRecursive_readDir
    \/ copyEntryRecursive_mkdirParent
    \/ copyEntryRecursive_copyFile
    \/ moveEntry_rename
    \/ moveEntry_rm
    \/ Return

NestedSpec == NestedInit /\ [][NestedNext]_vars

----------------------------------------------------------------------------
(* Vocabulary of the properties.                                           *)

Done == pc = "done"

(* The call has returned an OperationResult (it has not thrown).           *)
Returned == pc = "done" /\ op.thrown = NoError

Snapshot == Range(op.selected)

FailedPaths == { op.failed[k].path : k \in 1..Len(op.failed) }

Succeeded == Snapshot \ FailedPaths

(* The path a successful source is reported as.                            *)
Reported(s) == IF op.kind = "delete" THEN s ELSE join(op.destination, basename(s))

(* The calls made for entry j of the snapshot, once the entry is over.     *)
EntryCalls(j) ==
    SubSeq(calls, op.marks[j] + 1,
           IF j < Len(op.marks) THEN op.marks[j + 1] ELSE Len(calls))

ErrorOf(s) == (CHOOSE r \in Range(op.failed) : r.path = s).error

IsCopyCall(c) == c.call \in {"stat", "mkdir", "readDir", "copyFile"}

----------------------------------------------------------------------------
(* C1: in copySelection, moveSelection and deleteSelection over a          *)
(* non-empty snapshot S every source yields exactly one outcome: each      *)
(* entry the loop has finished added one element to processed or one to    *)
(* failed, never both and never none, so that |processed| + |failed| = |S| *)
(* when the call returns, and every failed.path is a distinct member of S. *)
C1_ExactlyOneOutcome ==
    (pc # "idle" /\ op.selected # <<>> /\ op.i >= 1) =>
        /\ Len(op.processed) + Len(op.failed) = op.i - 1
        /\ FailedPaths \subseteq Snapshot
        /\ Cardinality(FailedPaths) = Len(op.failed)
        /\ Returned => Len(op.processed) + Len(op.failed) = Len(op.selected)
        /\ op.kind = "delete" => Range(op.processed) \cap FailedPaths = {}

C1_Witness ==
    /\ Returned
    /\ Len(op.selected) = 3
    /\ Len(op.processed) = 2
    /\ Len(op.failed) = 1

(* C2, as stated: the paths of processed united with the failed paths are  *)
(* exactly the snapshot, for copy, move and delete alike.                  *)
C2_Original ==
    Returned /\ op.selected # <<>> =>
        Range(op.processed) \cup FailedPaths = Snapshot

(* C2, amended: the failed paths are sources of the snapshot and the paths *)
(* of processed are exactly the reports of the other sources: the source   *)
(* itself for delete, destination/basename(source) for copy and move.      *)
C2_Amended ==
    Returned /\ op.selected # <<>> =>
        /\ FailedPaths \subseteq Snapshot
        /\ Range(op.processed) = { Reported(s) : s \in Succeeded }

C2_Witness ==
    /\ Returned
    /\ op.kind = "move"
    /\ op.processed # <<>>
    /\ op.failed # <<>>
    /\ Range(op.processed) \cap Snapshot = {}

(* C3: a failure while processing an entry never prevents a later entry    *)
(* from being attempted: whichever entries failed, the call returns with   *)
(* every entry of the snapshot begun, its first port call being a call on  *)
(* that entry's source, and with an outcome for every entry.               *)
C3_FailureDoesNotAbort ==
    (Done /\ op.failed # <<>>) =>
        /\ op.thrown = NoError
        /\ Len(op.marks) = Len(op.selected)
        /\ \A j \in 1..Len(op.selected) :
              /\ EntryCalls(j) # <<>>
              /\ EntryCalls(j)[1].path = op.selected[j]
              /\ EntryCalls(j)[1].call \in {"stat", "rename", "rm"}
        /\ Len(op.processed) + Len(op.failed) = Len(op.selected)

C3_Witness ==
    /\ Returned
    /\ Len(op.selected) >= 2
    /\ op.selected[1] \in FailedPaths
    /\ Reported(op.selected[2]) \in Range(op.processed)
    /\ op.selected[2] \notin FailedPaths

(* C4, as stated: with a non-empty selection the bulk call always returns  *)
(* an OperationResult; no failure of a port call is thrown out of it.      *)
C4_Original ==
    (Done /\ op.selected # <<>>) => op.thrown = NoError

(* C4, amended: with a non-empty selection, deleteSelection always returns *)
(* an OperationResult, and copySelection and moveSelection do unless the   *)
(* creation of the destination directory fails: that failure is thrown out *)
(* of the call, before any entry is begun.  Every other failed port call   *)
(* is a rename (followed by the fallback) or the last call of its entry,   *)
(* whose source is then in failed with that call's error.                  *)
C4_Amended ==
    (Done /\ op.selected # <<>>) =>
        /\ op.thrown # NoError =>
              /\ op.kind \in {"copy", "move"}
              /\ op.marks = <<>> /\ op.processed = <<>> /\ op.failed = <<>>
              /\ calls[Len(calls)].call = "mkdir"
              /\ calls[Len(calls)].path = op.destination
              /\ op.thrown = OperationError("mkdir", calls[Len(calls)].error)
        /\ op.thrown = NoError =>
              /\ Len(op.marks) = Len(op.selected)
              /\ \A k \in 1..op.marks[1] : calls[k].error = ""
              /\ \A j \in 1..Len(op.selected) :
                    \A k \in 1..Len(EntryCalls(j)) :
                       LET c == EntryCalls(j)[k]
                       IN  (c.error # "" /\ c.call # "rename") =>
                              /\ k = Len(EntryCalls(j))
                              /\ op.selected[j] \in FailedPaths
                              /\ ErrorOf(op.selected[j]) = OperationError(c.call, c.error)

C4_Witness ==
    /\ Done
    /\ op.selected # <<>>
    /\ op.thrown = OperationError("mkdir", "EACCES")

(* C5: on an empty selection each bulk call throws 'No entries selected.'  *)
(* before any port or generator call, with no partial result, and the      *)
(* selection stays empty.                                                  *)
C5_EmptySelectionFailsFast ==
    (pc # "idle" /\ op.selected = <<>>) =>
        /\ pc = "done"
        /\ op.thrown = NoEntriesSelected
        /\ calls = <<>> /\ op.probes = <<>>
        /\ op.processed = <<>> /\ op.failed = <<>>
        /\ selection = <<>>

C5_Witness ==
    /\ pc = "done"
    /\ op.kind = "move"
    /\ op.thrown = NoEntriesSelected

(* C6: copySelection leaves the selection as it was at the call: same      *)
(* paths, same order, whether entries succeed or fail.                     *)
C6_CopyKeepsSelection ==
    (pc # "idle" /\ op.kind = "copy" /\ op.selected # <<>>) => selection = op.selected

C6_Witness ==
    /\ Returned
    /\ op.kind = "copy"
    /\ Len(op.selected) >= 2
    /\ op.processed # <<>>
    /\ op.failed # <<>>

(* C7: after moveSelection into D over snapshot S the selection is S minus *)
(* the sources that succeeded, united with D/basename(s) of each of them.  *)
C7_MoveSelection ==
    (Returned /\ op.kind = "move") =>
        /\ Range(selection) = (Snapshot \ Succeeded) \cup { Reported(s) : s \in Succeeded }
        /\ Cardinality(Range(selection)) = Len(selection)

C7_Witness ==
    /\ Returned
    /\ op.kind = "move"
    /\ Succeeded # {}
    /\ FailedPaths # {}
    /\ \E s \in Succeeded : Reported(s) \in Range(selection) /\ s \notin Range(selection)

(* C8: after deleteSelection over snapshot S every source whose removal    *)
(* succeeded is gone from disk, is in processed and is not selected; every *)
(* source whose removal raised is in failed and still selected; the        *)
(* selection is exactly the failed paths.                                  *)
C8_DeleteSelection ==
    (Returned /\ op.kind = "delete") =>
        /\ \A k \in 1..Len(calls) :
              /\ calls[k].call = "rm"
              /\ calls[k].error = "" =>
                    /\ calls[k].path \notin DOMAIN fs
                    /\ calls[k].path \in Range(op.processed)
                    /\ calls[k].path \notin Range(selection)
              /\ calls[k].error # "" =>
                    /\ calls[k].path \in FailedPaths
                    /\ calls[k].path \in Range(selection)
        /\ { calls[k].path : k \in 1..Len(calls) } = Snapshot
        /\ Range(selection) = FailedPaths

C8_Witness ==
    /\ Returned
    /\ op.kind = "delete"
    /\ op.failed # <<>>
    /\ \E s \in Range(op.processed) : s \in DOMAIN InitialFs /\ s \notin DOMAIN fs

(* C9: for each moved entry the rename source -> D/basename(source) is the *)
(* first call and the only rename; if it succeeds nothing else is called   *)
(* for the entry; if it fails the recursive copy and then the removal of   *)
(* the source follow, and the entry fails only if a call of that fallback  *)
(* fails, with that call's error (not the rename's) reported.              *)
C9_RenameThenFallback ==
    (Returned /\ op.kind = "move") =>
        \A j \in 1..Len(op.selected) :
           LET c == EntryCalls(j)
               s == op.selected[j]
               last == c[Len(c)]
           IN  /\ Len(c) >= 1
               /\ c[1].call = "rename" /\ c[1].path = s
               /\ c[1].to = join(op.destination, basename(s))
               /\ \A k \in 2..Len(c) : c[k].call # "rename"
               /\ c[1].error = "" => (Len(c) = 1 /\ s \notin FailedPaths)
               /\ c[1].error # "" =>
                     /\ Len(c) >= 2
                     /\ c[2].call = "stat" /\ c[2].path = s
                     /\ \A k \in 2..(Len(c) - 1) : c[k].error = "" /\ IsCopyCall(c[k])
                     /\ s \in FailedPaths <=> last.error # ""
                     /\ last.error # "" =>
                           ErrorOf(s) = OperationError(last.call, last.error)
                     /\ last.error = "" => (last.call = "rm" /\ last.path = s)

C9_Witness ==
    /\ Returned
    /\ op.kind = "move"
    /\ \E j \in 1..Len(op.selected) :
          /\ EntryCalls(j)[1].error # ""
          /\ EntryCalls(j)[Len(EntryCalls(j))].call = "rm"
          /\ EntryCalls(j)[Len(EntryCalls(j))].error = ""
    /\ \E j \in 1..Len(op.selected) :
          /\ EntryCalls(j)[1].error # ""
          /\ op.selected[j] \in FailedPaths

(* C10: in copy and move into D, each entry that succeeds appends          *)
(* D/basename(source) to processed and each entry that fails appends a     *)
(* failure whose path is the source.                                       *)
C10_EntryReport ==
    (op.kind \in {"copy", "move"} /\ op.i >= 1 /\ op'.i = op.i + 1) =>
        LET s == op.selected[op.i]
        IN  \/ /\ op'.processed = Append(op.processed, join(op.destination, basename(s)))
               /\ op'.failed = op.failed
            \/ /\ op'.processed = op.processed
               /\ Len(op'.failed) = Len(op.failed) + 1
               /\ SubSeq(op'.failed, 1, Len(op.failed)) = op.failed
               /\ op'.failed[Len(op'.failed)].path = s

C10_ProcessedIsDestination == [][C10_EntryReport]_vars

C10_Witness ==
    /\ Returned
    /\ op.kind = "copy"
    /\ op.explicit
    /\ op.processed = << <<"dst", "a">> >>
    /\ Len(op.failed) = 1
    /\ op.failed[1].path = <<"r", "m">>

----------------------------------------------------------------------------
(* The entries of the snapshot the loop has finished, in snapshot order.   *)
Finished == SubSeq(op.selected, 1, op.i - 1)

MapReported(s) == [k \in 1..Len(s) |-> Reported(s[k])]

FailedSeq == [k \in 1..Len(op.failed) |-> op.failed[k].path]

----------------------------------------------------------------------------
(* The body of the response to the operation request that has returned.    *)
OperationPayload ==
    createOperationPayload([processed |-> op.processed, failed |-> op.failed],
                           selection, <<>>)

(* Ascending order of sibling paths: the order of their names by code      *)
(* unit, as Array.prototype.sort() compares them.                          *)
SortedNames == <<"a", "d", "m">>

Rank(name) == CHOOSE k \in 1..Len(SortedNames) : SortedNames[k] = name

Ascending(s) ==
    \A k \in 1..(Len(s) - 1) :
       (dirname(s[k]) = dirname(s[k + 1])
          /\ {basename(s[k]), basename(s[k + 1])} \subseteq Range(SortedNames)) =>
             Rank(basename(s[k])) < Rank(basename(s[k + 1]))

(* C12: when several entries are moved or deleted in one request the       *)
(* processed list of the response is in ascending path order, whatever the *)
(* order in which the paths were selected, and after a move the selection  *)
(* of the response is in ascending path order as well.                     *)
C12_AscendingResponse ==
    (Returned /\ op.kind \in {"move", "delete"} /\ op.failed = <<>>) =>
        /\ Ascending(OperationPayload.processed)
        /\ op.kind = "move" => Ascending(OperationPayload.selection)

----------------------------------------------------------------------------
(* C13: when copySelection or moveSelection is given a destination root,   *)
(* the destination is that root resolved to absolute form: no name is      *)
(* generated and no existence check is made, whether or not the root       *)
(* exists; the first port call is the creation of the resolved root.       *)
C13_ExplicitRootUsedDirectly ==
    (pc # "idle" /\ op.destinationRoot # <<>> /\ op.selected # <<>>) =>
        /\ op.explicit
        /\ op.destination = resolve(op.destinationRoot[1])
        /\ pc \notin {"existsRandom", "existsNumbered"}
        /\ op.probes = <<>> /\ op.lastRandomName = "" /\ op.attempt = 0
        /\ \A k \in 1..Len(calls) : calls[k].call # "exists"
        /\ calls # <<>> =>
              (calls[1].call = "mkdir" /\ calls[1].path = resolve(op.destinationRoot[1]))

C13_Witness ==
    /\ pc = "mkdirDestination"
    /\ op.kind = "copy"
    /\ op.destinationRoot = << <<"r", "..", "dst">> >>
    /\ op.destination = <<"dst">>
    /\ exists(fs, op.destination)

----------------------------------------------------------------------------
(* A copy or move that generates its destination.                          *)
Generating ==
    pc # "idle" /\ op.kind \in {"copy", "move"} /\ op.destinationRoot = <<>>
               /\ op.selected # <<>>

Trials == Cardinality({ j \in 1..Len(op.probes) : op.probes[j].call = "generate" })

(* C14: with no destination root the resolution makes at most 10 random    *)
(* trials, each one generator call followed by one existence check of that *)
(* name in the parent directory (the directory of the first snapshot       *)
(* entry); the first trial whose name does not exist is accepted and no    *)
(* generator call or existence check follows it.                           *)
C14_RandomTrials ==
    Generating =>
        /\ Trials <= maxAttempts
        /\ \A j \in 1..Len(op.probes) :
              /\ (j <= 2 * maxAttempts /\ j % 2 = 1) => op.probes[j] = Probe("generate", "")
              /\ (j <= 2 * maxAttempts /\ j % 2 = 0) => op.probes[j].call = "exists"
              /\ op.probes[j] = ExistsProbe(FALSE) =>
                    (j = Len(op.probes) /\ pc = "mkdirDestination")
        /\ pc = "existsRandom" =>
              /\ op.attempt < maxAttempts
              /\ Len(op.probes) = 2 * op.attempt + 1
              /\ op.lastRandomName \in GeneratedNames
              /\ op.parentDirectory = dirname(op.selected[1])
              /\ op.candidate = join(op.parentDirectory, op.lastRandomName)
        /\ (pc = "mkdirDestination" /\ op.suffix = 0) =>
              /\ Len(op.probes) = 2 * (op.attempt + 1)
              /\ op.probes[Len(op.probes)] = ExistsProbe(FALSE)
              /\ op.destination = join(dirname(op.selected[1]), op.lastRandomName)
              /\ ~exists(fs, op.destination)
        /\ calls # <<>> =>
              /\ op.probes = <<>>
              /\ \A k \in 1..Len(calls) : calls[k].call # "exists"

C14_Witness ==
    /\ Generating
    /\ pc = "mkdirDestination"
    /\ op.suffix = 0
    /\ Trials = maxAttempts
    /\ op.lastRandomName = "calm-delta"
    /\ exists(fs, <<"r", "calm-atlas">>)

----------------------------------------------------------------------------
(* C15: when all 10 random trials collide the destination is N-k, N being  *)
(* the name of the 10th trial and k the smallest integer >= 1 such that    *)
(* N-k does not exist in the parent directory: the numbering starts at 1,  *)
(* the suffixes are checked in increasing order and the generator is not   *)
(* called during the numeric phase.                                        *)
C15_Step ==
    /\ (Generating /\ pc = "existsRandom" /\ pc' = "existsNumbered") =>
          /\ op.attempt = maxAttempts - 1 /\ Trials = maxAttempts
          /\ op.candidate = join(op.parentDirectory, op.lastRandomName)
          /\ exists(fs, op.candidate)
          /\ \A j \in 1..Len(op.probes) : op.probes[j] # ExistsProbe(FALSE)
          /\ op'.lastRandomName = op.lastRandomName
          /\ op'.suffix = 1
          /\ op'.candidate = join(op.parentDirectory, numberedName(op.lastRandomName, 1))
          /\ op'.probes = Append(op.probes, ExistsProbe(TRUE))
    /\ (Generating /\ pc = "existsNumbered") =>
          /\ op'.lastRandomName = op.lastRandomName
          /\ op'.parentDirectory = op.parentDirectory
          /\ op'.probes = Append(op.probes, ExistsProbe(exists(fs, op.candidate)))
          /\ op.candidate = join(op.parentDirectory,
                                 numberedName(op.lastRandomName, op.suffix))
          /\ IF exists(fs, op.candidate)
             THEN /\ pc' = "existsNumbered"
                  /\ op'.suffix = op.suffix + 1
                  /\ op'.candidate = join(op.parentDirectory,
                                          numberedName(op.lastRandomName, op.suffix + 1))
             ELSE /\ pc' = "mkdirDestination"
                  /\ op'.suffix = op.suffix
                  /\ op'.destination = op.candidate
                  /\ \A k \in 1..(op.suffix - 1) :
                        exists(fs, join(op.parentDirectory,
                                        numberedName(op.lastRandomName, k)))
                  /\ ~exists(fs, op'.destination)

C15_NumberedFallback == [][C15_Step]_vars

C15_Witness ==
    /\ Generating
    /\ pc = "mkdirDestination"
    /\ op.suffix = 2
    /\ op.lastRandomName = "calm-atlas"
    /\ op.destination = <<"r", "calm-atlas-2">>
    /\ Len(op.probes) = 2 * maxAttempts + 2
    /\ exists(fs, <<"r", "calm-delta">>)

----------------------------------------------------------------------------
Resolving == pc \in {"existsRandom", "existsNumbered"}

(* The existence checks made on random names: those that follow a          *)
(* generator call.                                                         *)
RandomChecks ==
    { j \in 2..Len(op.probes) :
        op.probes[j].call = "exists" /\ op.probes[j - 1].call = "generate" }

C16_Resolved ==
    Generating =>
        /\ Cardinality(RandomChecks) <= maxAttempts
        /\ pc = "existsNumbered" =>
              /\ Cardinality(RandomChecks) = maxAttempts
              /\ Len(op.probes) = 2 * maxAttempts + op.suffix - 1
        /\ pc = "mkdirDestination" =>
              /\ op.probes[Len(op.probes)] = ExistsProbe(FALSE)
              /\ op.destination = op.candidate
              /\ dirname(op.destination) = dirname(op.selected[1])
              /\ ~exists(fs, op.destination)

(* C16: the resolution of a generated destination always terminates,       *)
(* whatever names exist in the parent directory and whatever the generator *)
(* returns, with a name whose existence check answered false, and at most  *)
(* 10 existence checks are spent on random names before the numbering      *)
(* starts.                                                                 *)
C16_ResolutionTerminates ==
    /\ []C16_Resolved
    /\ (Resolving ~> pc = "mkdirDestination")

C16_Witness ==
    /\ Generating
    /\ pc = "mkdirDestination"
    /\ op.suffix = MaxSuffix + 1
    /\ Cardinality(RandomChecks) = maxAttempts
    /\ \A n \in ResolveNames : exists(fs, <<"r", n>>)

----------------------------------------------------------------------------
EntryStates ==
    {"stat", "mkdirDir", "readDir", "mkdirParent", "copyFile", "rename", "moveRm"}

(* C17: in copySelection and moveSelection the recursive creation of the   *)
(* destination directory is issued, and has completed, before the first    *)
(* port call made for any entry of the snapshot: it is the first call of   *)
(* the log, every call of an entry comes after it, and no entry is begun   *)
(* unless it succeeded.                                                    *)
C17_DestinationCreatedFirst ==
    (pc # "idle" /\ op.kind \in {"copy", "move"} /\ op.selected # <<>>) =>
        /\ (pc \in EntryStates \/ op.marks # <<>>) =>
              /\ calls # <<>>
              /\ calls[1].call = "mkdir" /\ calls[1].path = op.destination
              /\ calls[1].error = ""
              /\ op.marks # <<>> /\ op.marks[1] = 1
        /\ calls = <<>> => (op.marks = <<>> /\ op.i = 0)
        /\ (Len(calls) = 1 /\ calls[1].error = "") =>
              (exists(fs, op.destination) /\ fs[op.destination].type = "directory")
        /\ calls # <<>> /\ calls[1].error # "" => (Len(calls) = 1 /\ pc = "done")

C17_Witness ==
    /\ pc = "copyFile"
    /\ op.kind = "copy"
    /\ Len(calls) = 3
    /\ calls[1].call = "mkdir" /\ calls[1].path = op.destination
    /\ calls[2].call = "stat" /\ calls[2].path = op.selected[1]
    /\ ~exists(InitialFs, op.destination)
    /\ exists(fs, op.destination)

----------------------------------------------------------------------------
(* The tree under t in filesystem g is that under s in filesystem f: the   *)
(* same relative paths with the same types and contents.                   *)
Mirrors(f, s, g, t) ==
    /\ exists(g, t)
    /\ \A q \in DOMAIN f :
          IsPrefix(s, q) =>
             LET r == t \o SubSeq(q, Len(s) + 1, Len(q))
             IN  exists(g, r) /\ g[r] = f[q]

(* C18: after a copySelection into D that reports source p as processed,   *)
(* D/basename(p) exists and mirrors p: for a file the same content, for a  *)
(* directory every file and directory under p at the same relative path    *)
(* with the same content.                                                  *)
C18_CopyMirrorsSource ==
    (Returned /\ op.kind = "copy") =>
        \A p \in Succeeded : Mirrors(TreeFs, p, fs, join(op.destination, basename(p)))

(* C19: copySelection is non-destructive: it issues no remove and no       *)
(* rename call, and every selected source that existed before the call     *)
(* still exists after it with unchanged content, for any destination.      *)
C19_CopyNonDestructive ==
    (pc # "idle" /\ op.kind = "copy") =>
        /\ \A k \in 1..Len(calls) : calls[k].call \notin {"rm", "rename"}
        /\ \A p \in Snapshot : exists(TreeFs, p) => Mirrors(TreeFs, p, fs, p)

(* C20: for every source p that moveSelection into D reports as processed, *)
(* moved by rename or by the fallback, p no longer exists after the call,  *)
(* D/basename(p) exists with the content p had before the call, and the    *)
(* selection contains D/basename(p) and not p.                             *)
C20_MoveProperty ==
    (Returned /\ op.kind = "move") =>
        \A p \in Succeeded :
           p # join(op.destination, basename(p)) =>
              /\ ~exists(fs, p)
              /\ Mirrors(TreeFs, p, fs, join(op.destination, basename(p)))
              /\ join(op.destination, basename(p)) \in Range(selection)
              /\ p \notin Range(selection)

----------------------------------------------------------------------------
(* The selection store.                                                    *)

NoDuplicates(s) == \A i, j \in 1..Len(s) : s[i] = s[j] => i = j

Resolved(paths) == { resolve(paths[k]) : k \in 1..Len(paths) }

(* C21: selectEntries is idempotent and deduplicating.  A call leaves the   *)
(* selection without repetition, holding what it held before and the       *)
(* resolved paths of the call, whether these were selected already or are  *)
(* listed twice; making the same call again changes nothing.               *)
C21_Step ==
    \A paths \in StoreLists :
        selectEntries(paths) =>
            /\ NoDuplicates(selection')
            /\ Range(selection') = Range(selection) \cup Resolved(paths)
            /\ AddEach(selection', paths) = selection'

C21_SelectIdempotent == []NoDuplicates(selection) /\ [][C21_Step]_vars

(* README.md selected by two calls, or twice by one and once by another.   *)
C21_Witness ==
    /\ callCount = 2
    /\ selection = << <<"r", "README.md">> >>

(* C22: selectAll(entries) replaces the selection.  After the call the    *)
(* selection holds the paths of entries, each once, and nothing else,      *)
(* whatever it held before; with no entries it is empty.                   *)
C22_Step ==
    \A entries \in EntryLists :
        selectAll(entries) =>
            /\ Range(selection') = Range(EntryPaths(entries))
            /\ NoDuplicates(selection')
            /\ (entries = <<>> => selection' = <<>>)

C22_SelectAllReplaces == [][C22_Step]_vars

(* package.json, which only selectAll selects, is all that is selected     *)
(* after a second call.                                                    *)
C22_Witness ==
    /\ callCount = 2
    /\ selection = << <<"r", "package.json">> >>

(* C23: deselectEntries removes the listed paths that are selected and    *)
(* nothing else: the other paths stay, in their order, and when none of    *)
(* the listed paths is selected the selection is unchanged (the call has   *)
(* no other outcome, so no error).                                         *)
C23_Step ==
    \A paths \in StoreLists :
        deselectEntries(paths) =>
            /\ selection' = SelectSeq(selection, LAMBDA x : x \notin Resolved(paths))
            /\ (Resolved(paths) \cap Range(selection) = {} => selection' = selection)

C23_DeselectFrame == [][C23_Step]_vars

(* Of README.md, src and the absent /r/m, selected by one call, a second   *)
(* call has removed README.md.                                             *)
C23_Witness ==
    /\ callCount = 2
    /\ selection = << <<"r", "src">>, <<"r", "m">> >>

(* C24: clearSelection empties the selection from any state, and is       *)
(* idempotent: on the selection it has emptied it changes nothing.         *)
C24_Step ==
    clearSelection =>
        /\ selection' = <<>>
        /\ (selection = <<>> => selection' = selection)

C24_ClearIdempotent == [][C24_Step]_vars

(* Three calls, as select, clear, clear, and nothing is selected.          *)
C24_Witness ==
    /\ callCount = 3
    /\ selection = <<>>

(* What getSelection returns after selectEntries(first) and then          *)
(* selectEntries(second), made on the selection as it is.                  *)
AfterBoth(first, second) == AddEach(AddEach(getSelection, first), second)

----------------------------------------------------------------------------
(* Listing.                                                                *)

(* listEntries has returned its entries.                                   *)
Listed == pc = "done" /\ op.kind = "list" /\ op.thrown = NoError

(* One entry per child of directory dir, with the type of the child.       *)
OnePerChild(dir) ==
    /\ Len(op.entries) = Cardinality(Children(fs, dir))
    /\ \A q \in Children(fs, dir) :
          \E k \in 1..Len(op.entries) :
              op.entries[k].name = basename(q) /\ op.entries[k].type = fs[q].type

(* The same names in the order of their UTF-16 code units, the             *)
(* case-sensitive lexical order: "R" is 82, "p" is 112.                    *)
CodeUnitOrder == <<"README.md", "package.json", "src">>

(* The entries ascend by name in the given order of the names.             *)
AscendingBy(order) ==
    \A i, j \in 1..Len(op.entries) :
        i < j => Position(order, op.entries[i].name) < Position(order, op.entries[j].name)

----------------------------------------------------------------------------
(* The name generator.                                                     *)

(* C27: constructing a RandomDirectoryNameGenerator fails, with the        *)
(* configuration error, exactly when the adjective list or the noun list   *)
(* is empty; a generator that has generated a name was constructed without *)
(* error and has raised none since.                                        *)
C27_ConstructionError ==
    /\ generator.status # "new" =>
          (generator.status = "failed" <=>
              (Len(generator.adjectives) = 0 \/ Len(generator.nouns) = 0))
    /\ generator.status = "failed" =>
          (generator.error = DictionariesEmpty /\ generator.draws = <<>>)
    /\ generator.status # "failed" => generator.error = ""
    /\ generator.draws # <<>> => generator.status = "ready"

(* The constructor has refused an empty noun list given with adjectives.   *)
C27_Witness ==
    /\ generator.status = "failed"
    /\ generator.adjectives = <<"calm">>
    /\ generator.nouns = <<>>

(* floor(r * length) for the value r = k / RandomSteps of the random port  *)
Index(k, length) == (k * length) \div RandomSteps

(* C28: generate() draws two values from the random port, the first for    *)
(* the adjective and the second for the noun, and returns                  *)
(* adjectives[floor(r1 * |adjectives|)] - nouns[floor(r2 * |nouns|)], both *)
(* indices within their list.                                              *)
C28_Generate ==
    generator.draws # <<>> =>
        LET d == generator.draws
            i1 == Index(d[1].value, Len(generator.adjectives))
            i2 == Index(d[2].value, Len(generator.nouns))
        IN  /\ Len(d) = 2
            /\ d[1].dictionary = "adjectives"
            /\ d[2].dictionary = "nouns"
            /\ i1 \in 0..(Len(generator.adjectives) - 1)
            /\ i2 \in 0..(Len(generator.nouns) - 1)
            /\ generator.name = generator.adjectives[i1 + 1] \o "-" \o generator.nouns[i2 + 1]

(* The largest value of the port for the adjective and the smallest for    *)
(* the noun: the last adjective and the first noun.                        *)
C28_Witness ==
    /\ generator.adjectives = <<"calm", "bold">>
    /\ generator.nouns = <<"atlas", "delta">>
    /\ generator.draws = <<Draw("adjectives", RandomSteps - 1), Draw("nouns", 0)>>
    /\ generator.name = "bold-atlas"

----------------------------------------------------------------------------
(* The HTTP layer.                                                         *)

(* The handler of a bulk request has answered with the result of the       *)
(* operation.                                                              *)
Answered == pc = "responded" /\ op.thrown = NoError

FailureMessages ==
    [copy |-> "Failed to copy selection.",
     move |-> "Failed to move selection.",
     delete |-> "Failed to delete selection."]

(* The payload p carries the result of the operation and the selection.    *)
CarriesResult(p) ==
    /\ p.processed = op.processed
    /\ Len(p.failed) = Len(op.failed)
    /\ \A k \in 1..Len(op.failed) :
          /\ p.failed[k].path = op.failed[k].path
          /\ p.failed[k].code = op.failed[k].error.code
    /\ p.selection = getSelection

(* C29: a copy, move or delete request whose result has no failed entry is *)
(* answered 2xx with processed, failed and the selection as it is after    *)
(* the operation; one whose result has failed entries is answered 422 with *)
(* the failure message of the operation and, as details, processed, failed *)
(* and the selection.                                                      *)
C29_OperationResponse ==
    Answered =>
        /\ response.request = op.kind
        /\ IF op.failed = <<>>
           THEN /\ response.status \in 200..299
                /\ CarriesResult(response.body)
           ELSE /\ response.status = 422
                /\ response.body.error = FailureMessages[op.kind]
                /\ CarriesResult(response.body.details)

(* A copy of /r/d and the absent /r/m into /dst: 422, with /dst/d          *)
(* processed and /r/m failed.                                              *)
C29_Witness ==
    /\ Answered
    /\ op.kind = "copy"
    /\ response.status = 422
    /\ response.body.details.processed = << <<"dst", "d">> >>
    /\ response.body.details.failed[1].path = <<"r", "m">>
    /\ response.body.details.selection = << <<"r", "d">>, <<"r", "m">> >>

(* The step is a move or delete request, with one of these destination     *)
(* roots for move.                                                         *)
MoveOrDeleteRequest(roots) ==
    \/ \E root \in roots : post_selection_move(root)
    \/ delete_selection

(* The response of the step is the validation failure of the operation,    *)
(* and the step calls neither the explorer nor the filesystem.             *)
ValidationFailure ==
    /\ response'.status = 422
    /\ response'.body =
          [error |-> FailureMessages[response'.request],
           details |-> [processed |-> <<>>, failed |-> <<>>, selection |-> <<>>,
                        validationErrors |-> <<"Selection cannot be empty.">>]]
    /\ UNCHANGED <<selection, fs, pc, op, calls, faults, callCount>>

(* C30, as stated: a move or delete request made while the selection is    *)
(* empty is answered 422 with the empty details and the validation error,  *)
(* without a call of the bulk method or of the filesystem, the selection    *)
(* staying empty.                                                          *)
C30_Step ==
    (MoveOrDeleteRequest(RequestRoots) /\ selection = <<>>) => ValidationFailure

C30_Original == [][C30_Step]_vars

(* C30, amended: the same for a delete request and for a move request      *)
(* whose destinationRoot is absent or inside the allowed roots (one        *)
(* outside them is answered 400 before the selection is looked at).        *)
C30_AmendedStep ==
    (/\ MoveOrDeleteRequest({ root \in RequestRoots :
            root = <<>> \/ isWithinAllowed(resolve(root[1])) })
     /\ selection = <<>>) => ValidationFailure

C30_Amended == [][C30_AmendedStep]_vars

(* The first request, a delete, has been answered with the validation      *)
(* failure.                                                                *)
C30_Witness ==
    /\ response.seq = 1
    /\ response.request = "delete"
    /\ response.status = 422
    /\ response.body.details.validationErrors = <<"Selection cannot be empty.">>
    /\ pc = "idle"
    /\ selection = <<>>
    /\ callCount = 0

(* Destination roots that parseDestinationRoot accepts.                    *)
AcceptedRoots ==
    { root \in RequestRoots : root = <<>> \/ isWithinAllowed(resolve(root[1])) }

(* The validation response of an operation: 422, the empty details and the *)
(* validation error.                                                       *)
IsValidationResponse(r) ==
    /\ r.status = 422
    /\ r.body = [error |-> FailureMessages[r.request],
                 details |-> [processed |-> <<>>, failed |-> <<>>, selection |-> <<>>,
                              validationErrors |-> <<"Selection cannot be empty.">>]]

(* C31: the empty-selection precondition gets the same validation response *)
(* on every bulk endpoint: a move or delete request made with an empty     *)
(* selection is answered with it at once, and a copy request whose         *)
(* operation ended with the empty-selection error is answered with it too, *)
(* not with the 400 of the other request errors.                           *)
C31_Step ==
    (MoveOrDeleteRequest(AcceptedRoots) /\ selection = <<>>) =>
        IsValidationResponse(response')

C31_Answered ==
    (pc = "responded" /\ op.thrown = NoEntriesSelected) =>
        (IsValidationResponse(response) /\ response.status # 400)

C31_OneValidationResponse == []C31_Answered /\ [][C31_Step]_vars

(* Paths that a port call creates, renames to or removes.                  *)
Written(c) ==
    IF c.call \in {"mkdir", "rm"} THEN {c.path}
    ELSE IF c.call \in {"copyFile", "rename"} THEN {c.to}
    ELSE {}

(* C32: after any sequence of requests, every path in the selection and    *)
(* every path the engine creates, renames to or removes lies inside one of *)
(* the allowed roots.                                                      *)
C32_WithinRoots ==
    /\ \A p \in Range(selection) : isWithinAllowed(p)
    /\ \A k \in 1..Len(calls) : \A p \in Written(calls[k]) : isWithinAllowed(p)

(* C33: a select or deselect request with a path outside the allowed      *)
(* roots is answered 400 and changes nothing: no path of the request, the  *)
(* ones inside the roots included, is added to or removed from the         *)
(* selection.                                                              *)
C33_Step ==
    \A paths \in RequestPaths :
        (/\ post_selection_select(paths) \/ post_selection_deselect(paths)
         /\ \E k \in 1..Len(paths) : ~isWithinAllowed(resolve(paths[k]))) =>
            /\ response'.status = 400
            /\ response'.body = [error |-> normalizeOperationError(OutsideRoots).message]
            /\ UNCHANGED <<selection, fs, pc, op, calls, faults, callCount>>

C33_RejectedWhole == [][C33_Step]_vars

(* /r/a is selected, and the request to deselect /r/a and /x/out has been  *)
(* refused: /r/a is still selected.                                        *)
C33_Witness ==
    /\ response.seq = 2
    /\ response.request = "deselect"
    /\ response.status = 400
    /\ selection = << <<"r", "a">> >>
    /\ pc = "idle"

----------------------------------------------------------------------------
(* Partial failure, interleaving and termination.                          *)

(* The part of filesystem f at and below path p.                           *)
Subtree(f, p) == [q \in { r \in DOMAIN f : IsPrefix(p, r) } |-> f[q]]

CopySteps == {"stat", "mkdirDir", "readDir", "mkdirParent", "copyFile"}

(* C34: in the move fallback the source is removed only after its whole    *)
(* recursive copy has completed without error.  A remove call of an entry  *)
(* is its last call and follows a failed rename and a run of successful    *)
(* copy calls that begins with the stat of the source; when a call of the  *)
(* copy fails there is no remove call, the source is reported in failed    *)
(* and stays selected; and no step of the copy changes the source tree.    *)
C34_Calls ==
    (Returned /\ op.kind = "move") =>
        \A j \in 1..Len(op.selected) :
           LET c == EntryCalls(j)
               s == op.selected[j]
           IN  /\ \A k \in 1..Len(c) :
                     c[k].call = "rm" =>
                        /\ k = Len(c) /\ k >= 3
                        /\ c[k].path = s
                        /\ c[1].call = "rename" /\ c[1].error # ""
                        /\ c[2].call = "stat" /\ c[2].path = s
                        /\ \A i \in 2..(k - 1) : IsCopyCall(c[i]) /\ c[i].error = ""
               /\ (\E k \in 2..Len(c) : IsCopyCall(c[k]) /\ c[k].error # "") =>
                     /\ \A k \in 1..Len(c) : c[k].call # "rm"
                     /\ s \in FailedPaths
                     /\ s \in Range(selection)

C34_Step ==
    (op.kind = "move" /\ pc \in CopySteps) =>
        Subtree(fs', op.source) = Subtree(fs, op.source)

C34_RemoveAfterCopy == []C34_Calls /\ [][C34_Step]_vars

(* A move whose rename failed and whose copy failed at copyFile, after     *)
(* stat, mkdir and readDir: the source is there, failed and selected.      *)
C34_Witness ==
    /\ Returned
    /\ op.kind = "move"
    /\ \E j \in 1..Len(op.selected) :
          LET c == EntryCalls(j)
          IN  /\ Len(c) >= 5
              /\ c[1].error # ""
              /\ c[Len(c)].call = "copyFile"
              /\ c[Len(c)].error # ""
              /\ op.selected[j] \in FailedPaths
              /\ op.selected[j] \in Range(selection)
              /\ op.selected[j] \in DOMAIN fs

(* The path a successful call creates: the directory of a mkdir, the       *)
(* destination of a copyFile.                                              *)
Created(c) == IF c.call = "copyFile" THEN c.to ELSE c.path

(* Entry j's copy failed after it had created something.                   *)
FailedPartWay(j) ==
    LET c == EntryCalls(j)
    IN  /\ c # <<>>
        /\ IsCopyCall(c[Len(c)]) /\ c[Len(c)].error # ""
        /\ \E k \in 1..Len(c) : c[k].call \in {"mkdir", "copyFile"} /\ c[k].error = ""

(* C35: a recursive copy that fails part-way is not rolled back.  What the *)
(* entry's successful mkdir and copyFile calls created is still there when *)
(* the operation returns, the entry made no remove call, and it is         *)
(* reported exactly once in failed, under its top-level source path; no    *)
(* step of a copy, the failing one included, removes a path.               *)
C35_State ==
    (Returned /\ op.kind \in {"copy", "move"}) =>
        \A j \in 1..Len(op.selected) :
           FailedPartWay(j) =>
              LET c == EntryCalls(j)
              IN  /\ \A k \in 1..Len(c) :
                        /\ c[k].call # "rm"
                        /\ (c[k].call \in {"mkdir", "copyFile"} /\ c[k].error = "") =>
                              Created(c[k]) \in DOMAIN fs
                  /\ Cardinality({ k \in 1..Len(op.failed) :
                                     op.failed[k].path = op.selected[j] }) = 1
                  /\ \A k \in 1..Len(op.failed) :
                        op.failed[k].path \in Range(op.selected)

C35_Step == (pc \in CopySteps) => DOMAIN fs \subseteq DOMAIN fs'

C35_NoRollback == []C35_State /\ [][C35_Step]_vars

(* The copy of a directory failed at a nested file after the directory was *)
(* created under the destination: the directory is there.                  *)
C35_Witness ==
    /\ Returned
    /\ op.kind = "copy"
    /\ \E j \in 1..Len(op.selected) :
          LET c == EntryCalls(j)
          IN  /\ FailedPartWay(j)
              /\ c[Len(c)].path # op.selected[j]
              /\ \E k \in 1..Len(c) :
                    /\ c[k].call = "mkdir" /\ c[k].error = ""
                    /\ IsPrefix(op.destination, c[k].path)
                    /\ c[k].path \in DOMAIN fs
              /\ op.selected[j] \in FailedPaths

IsBulk(kind) == kind \in {"copy", "move", "delete"}

(* C36: a bulk operation works on the snapshot frozen at its start.  The   *)
(* snapshot is the selection at the call and no later step changes it,     *)
(* whatever select, deselect and clear calls run while the operation is    *)
(* suspended; the entries begun are those of the snapshot, in its order,   *)
(* and the result covers exactly the snapshot; and no step of the engine   *)
(* deselects a path that is selected and not in the snapshot.              *)
C36_Result ==
    (Returned /\ IsBulk(op.kind)) =>
        /\ Len(op.marks) = Len(op.selected)
        /\ \A j \in 1..Len(op.selected) :
              EntryCalls(j) # <<>> /\ EntryCalls(j)[1].path = op.selected[j]
        /\ FailedPaths \subseteq Snapshot
        /\ Range(op.processed) = { Reported(s) : s \in Succeeded }
        /\ Len(op.processed) + Len(op.failed) = Len(op.selected)

C36_Step ==
    /\ (pc = "idle" /\ pc' # "idle" /\ IsBulk(op'.kind)) => op'.selected = selection
    /\ (pc # "idle" /\ pc' # "idle") => op'.selected = op.selected
    /\ (pc # "idle" /\ IsBulk(op.kind) /\ callCount' = callCount) =>
          (Range(selection) \ Snapshot) \subseteq Range(selection')

C36_SnapshotFrozen == []C36_Result /\ [][C36_Step]_vars

(* A path was selected while the operation was in flight: it is not in the *)
(* snapshot, no call was made on it, and it is selected at the return.     *)
C36_Witness ==
    /\ Returned
    /\ IsBulk(op.kind)
    /\ op.processed # <<>>
    /\ \E p \in Range(selection) :
          /\ p \notin Snapshot
          /\ p \notin Range(op.processed)
          /\ \A k \in 1..Len(calls) : calls[k].path # p

(* C37: an engine-generated destination directory does not exist at the   *)
(* moment the engine creates it, also when another operation or process    *)
(* writes to the parent directory between the existence check and the      *)
(* creation: every successful mkdir of a generated destination is made on  *)
(* a path absent from the filesystem.                                      *)
C37_Step ==
    (/\ pc = "mkdirDestination"
     /\ ~op.explicit
     /\ Len(calls') = Len(calls) + 1
     /\ calls'[Len(calls')].call = "mkdir"
     /\ calls'[Len(calls')].error = "") =>
        op.destination \notin DOMAIN fs

C37_CreatedFresh == [][C37_Step]_vars

(* The port calls a copy of one entry makes when it ends by exhausting the *)
(* tree: a rename and a remove, and three calls (stat, mkdir, then readDir *)
(* or copyFile) for each node it visits, which are nodes of the tree the   *)
(* operation started on or copies made by the operation's earlier entries, *)
(* at most as many again.                                                  *)
CallsOfFiniteCopy == 3 * (2 * Cardinality(DOMAIN NestedFs)) + 2

(* C38: on a finite tree copySelection and the copy fallback of            *)
(* moveSelection make finitely many port calls, also when the destination  *)
(* lies inside a selected directory: the calls made for the entry in       *)
(* progress never exceed those of a copy that visits every node once.      *)
C38_FinitelyManyCalls ==
    (IsBulk(op.kind) /\ op.marks # <<>>) =>
        Len(calls) - op.marks[Len(op.marks)] <= CallsOfFiniteCopy

(* C39: retry after a partial failure.  When deleteSelection returns, the  *)
(* selection is the failed paths in their order, none of them processed;   *)
(* the return leaves the selection as it is; and the deleteSelection that  *)
(* follows takes the selection as its snapshot and begins with its first   *)
(* path, or raises the empty-selection error when nothing is selected.     *)
C39_AfterDelete ==
    (Returned /\ op.kind = "delete") =>
        /\ selection = FailedSeq
        /\ Range(op.processed) \cap Range(selection) = {}

C39_Step ==
    /\ (pc = "done" /\ pc' = "idle") => selection' = selection
    /\ (pc = "idle" /\ pc' # "idle" /\ op'.kind = "delete") =>
          IF selection = <<>>
          THEN pc' = "done" /\ op'.thrown = NoEntriesSelected /\ calls' = calls
          ELSE /\ op'.selected = selection
               /\ op'.thrown = NoError
               /\ pc' = "deleteRm"
               /\ op'.source = selection[1]

C40_ParentOfFirst ==
    (IsBulk(op.kind) /\ ~op.explicit /\ op.selected # <<>>) =>
        /\ (pc \in {"existsRandom", "existsNumbered"}) =>
              /\ op.candidate # <<>>
              /\ dirname(op.candidate) = dirname(op.selected[1])
        /\ (op.destination # <<>>) =>
              dirname(op.destination) = dirname(op.selected[1])

(* /r/d/f then /r/d are selected: the destination was created in /r/d,     *)
(* which is not the parent of the second entry, after a numbered check.    *)
C40_Witness ==
    /\ IsBulk(op.kind)
    /\ ~op.explicit
    /\ Len(op.selected) = 2
    /\ dirname(op.selected[2]) # dirname(op.selected[1])
    /\ op.destination # <<>>
    /\ dirname(op.destination) = dirname(op.selected[1])
    /\ op.destination \in DOMAIN fs
    /\ \E name \in GeneratedNames : basename(op.destination) = numberedName(name, 1)

====
